---- MODULE Spec2Model ----
(***************************************************************************)
(* The console bridge of iii-hq/console (packages/console-rust): the       *)
(* handlers installed by register_functions, the response envelope         *)
(* builder of bridge/error.rs, and the remote engine they call through     *)
(* III::call_with_timeout.                                                  *)
(*                                                                         *)
(* A Rust String is a sequence of characters (one-character strings), so   *)
(* that format!, starts_with and comparison act on the characters.  A      *)
(* serde_json::Value is a tagged record; the result of Value::get is the   *)
(* value found or Absent (Option::None).                                   *)
(***************************************************************************)
EXTENDS Integers, Sequences, FiniteSets, TLC

-----------------------------------------------------------------------------
(* serde_json::Value *)

\* A value is a record whose tag t tells the variant; v holds the content.
Absent == [t |-> "absent"]
JNull == [t |-> "null"]
JBool(b) == [t |-> "bool", v |-> b]
JNum(n) == [t |-> "num", v |-> n]
JStr(s) == [t |-> "str", v |-> s]
JArr(a) == [t |-> "arr", v |-> a]
JObj(f) == [t |-> "obj", v |-> f]
EmptyMap == [k \in {} |-> Absent]
EmptyObj == JObj(EmptyMap)

\* Value::get(key): the member of an object, None for any other value
Get(v, k) == IF v.t = "obj" /\ k \in DOMAIN v.v THEN v.v[k] ELSE Absent
\* Option::and_then(|v| v.as_str())
AsStr(o) == IF o.t = "str" THEN o ELSE Absent
\* Option::and_then(|v| v.as_array())
AsArray(o) == IF o.t = "arr" THEN o ELSE Absent
\* Option::or_else / Option::unwrap_or
OrElse(o, d) == IF o.t # "absent" THEN o ELSE d
IsSome(o) == o.t # "absent"

\* whether the string s contains the string sub
Contains(s, sub) ==
    \E i \in 0..(Len(s) - Len(sub)) : SubSeq(s, i + 1, i + Len(sub)) = sub

-----------------------------------------------------------------------------
(* String literals of the source *)

\* "__console.flowConfigs"
FLOW_CONFIG_GROUP == <<"_", "_", "c", "o", "n", "s", "o", "l", "e", ".", "f", "l", "o", "w", "C", "o", "n", "f", "i", "g", "s">>
\* the texts of the error table and of the handlers' messages
MSG ==
    [ not_connected |->   \* "Bridge is not connected" (error.rs:7)
        <<"B", "r", "i", "d", "g", "e", " ", "i", "s", " ", "n", "o", "t", " ", "c", "o", "n", "n", "e", "c", "t", "e", "d">>,
      timeout |->   \* "Invocation timed out" (error.rs:8)
        <<"I", "n", "v", "o", "c", "a", "t", "i", "o", "n", " ", "t", "i", "m", "e", "d", " ", "o", "u", "t">>,
      remote_open |->   \* "Remote error (" (error.rs:10)
        <<"R", "e", "m", "o", "t", "e", " ", "e", "r", "r", "o", "r", " ", "(">>,
      remote_sep |->   \* "): " (error.rs:10)
        <<")", ":", " ">>,
      handler |->   \* "Handler error: " (error.rs:12)
        <<"H", "a", "n", "d", "l", "e", "r", " ", "e", "r", "r", "o", "r", ":", " ">>,
      serde |->   \* "Serialization error: " (error.rs:13)
        <<"S", "e", "r", "i", "a", "l", "i", "z", "a", "t", "i", "o", "n", " ", "e", "r", "r", "o", "r", ":", " ">>,
      websocket |->   \* "WebSocket error: " (error.rs:14)
        <<"W", "e", "b", "S", "o", "c", "k", "e", "t", " ", "e", "r", "r", "o", "r", ":", " ">>,
      missing_trace_id |->   \* "Missing trace_id in request" (functions.rs:260)
        <<"M", "i", "s", "s", "i", "n", "g", " ", "t", "r", "a", "c", "e", "_", "i", "d", " ", "i", "n", " ", "r", "e", "q", "u", "e", "s", "t">>,
      missing_scope |->   \* "Missing scope in request" (functions.rs:366)
        <<"M", "i", "s", "s", "i", "n", "g", " ", "s", "c", "o", "p", "e", " ", "i", "n", " ", "r", "e", "q", "u", "e", "s", "t">>,
      missing_group |->   \* "Missing group in path parameters" (functions.rs:385)
        <<"M", "i", "s", "s", "i", "n", "g", " ", "g", "r", "o", "u", "p", " ", "i", "n", " ", "p", "a", "t", "h", " ", "p", "a", "r", "a", "m", "e", "t", "e", "r", "s">>,
      missing_key_body |->   \* "Missing key in request body" (functions.rs:400)
        <<"M", "i", "s", "s", "i", "n", "g", " ", "k", "e", "y", " ", "i", "n", " ", "r", "e", "q", "u", "e", "s", "t", " ", "b", "o", "d", "y">>,
      missing_value |->   \* "Missing value in request body" (functions.rs:413)
        <<"M", "i", "s", "s", "i", "n", "g", " ", "v", "a", "l", "u", "e", " ", "i", "n", " ", "r", "e", "q", "u", "e", "s", "t", " ", "b", "o", "d", "y">>,
      missing_key_path |->   \* "Missing key in path parameters" (functions.rs:461)
        <<"M", "i", "s", "s", "i", "n", "g", " ", "k", "e", "y", " ", "i", "n", " ", "p", "a", "t", "h", " ", "p", "a", "r", "a", "m", "e", "t", "e", "r", "s">>,
      missing_flow_id |->   \* "Missing flow_id parameter" (functions.rs:546)
        <<"M", "i", "s", "s", "i", "n", "g", " ", "f", "l", "o", "w", "_", "i", "d", " ", "p", "a", "r", "a", "m", "e", "t", "e", "r">>,
      invalid_flow_id |->   \* "Invalid flow_id: " (functions.rs:19)
        <<"I", "n", "v", "a", "l", "i", "d", " ", "f", "l", "o", "w", "_", "i", "d", ":", " ">>,
      missing_function_id |->   \* "Missing function_id in request" (functions.rs:592)
        <<"M", "i", "s", "s", "i", "n", "g", " ", "f", "u", "n", "c", "t", "i", "o", "n", "_", "i", "d", " ", "i", "n", " ", "r", "e", "q", "u", "e", "s", "t">>,
      missing_trigger_id |->   \* "Missing trigger_id in request" (functions.rs:624)
        <<"M", "i", "s", "s", "i", "n", "g", " ", "t", "r", "i", "g", "g", "e", "r", "_", "i", "d", " ", "i", "n", " ", "r", "e", "q", "u", "e", "s", "t">>,
      cron_trigger_open |->   \* "Cron trigger '" (functions.rs:667)
        <<"C", "r", "o", "n", " ", "t", "r", "i", "g", "g", "e", "r", " ", "'">>,
      not_found_close |->   \* "' not found" (functions.rs:667)
        <<"'", " ", "n", "o", "t", " ", "f", "o", "u", "n", "d">>,
      trigger_open |->   \* "Trigger '" (functions.rs:680)
        <<"T", "r", "i", "g", "g", "e", "r", " ", "'">>,
      not_cron_close |->   \* "' is not a cron trigger" (functions.rs:680)
        <<"'", " ", "i", "s", " ", "n", "o", "t", " ", "a", " ", "c", "r", "o", "n", " ", "t", "r", "i", "g", "g", "e", "r">>,
      no_function_id_close |->   \* "' has no function_id" (functions.rs:689)
        <<"'", " ", "h", "a", "s", " ", "n", "o", " ", "f", "u", "n", "c", "t", "i", "o", "n", "_", "i", "d">>,
      flow_saved |->   \* "Flow config saved successfully" (functions.rs:758)
        <<"F", "l", "o", "w", " ", "c", "o", "n", "f", "i", "g", " ", "s", "a", "v", "e", "d", " ", "s", "u", "c", "c", "e", "s", "s", "f", "u", "l", "l", "y">>]

\* the function names given to call_with_timeout
RPC ==
    [ health_check |->   \* "engine::health::check" (functions.rs:38)
        <<"e", "n", "g", "i", "n", "e", ":", ":", "h", "e", "a", "l", "t", "h", ":", ":", "c", "h", "e", "c", "k">>,
      workers_list |->   \* "engine::workers::list" (functions.rs:48)
        <<"e", "n", "g", "i", "n", "e", ":", ":", "w", "o", "r", "k", "e", "r", "s", ":", ":", "l", "i", "s", "t">>,
      triggers_list |->   \* "engine::triggers::list" (functions.rs:61)
        <<"e", "n", "g", "i", "n", "e", ":", ":", "t", "r", "i", "g", "g", "e", "r", "s", ":", ":", "l", "i", "s", "t">>,
      functions_list |->   \* "engine::functions::list" (functions.rs:77)
        <<"e", "n", "g", "i", "n", "e", ":", ":", "f", "u", "n", "c", "t", "i", "o", "n", "s", ":", ":", "l", "i", "s", "t">>,
      metrics_list |->   \* "engine::metrics::list" (functions.rs:96)
        <<"e", "n", "g", "i", "n", "e", ":", ":", "m", "e", "t", "r", "i", "c", "s", ":", ":", "l", "i", "s", "t">>,
      alerts_list |->   \* "engine::alerts::list" (functions.rs:179)
        <<"e", "n", "g", "i", "n", "e", ":", ":", "a", "l", "e", "r", "t", "s", ":", ":", "l", "i", "s", "t">>,
      sampling_rules |->   \* "engine::sampling::rules" (functions.rs:189)
        <<"e", "n", "g", "i", "n", "e", ":", ":", "s", "a", "m", "p", "l", "i", "n", "g", ":", ":", "r", "u", "l", "e", "s">>,
      logs_list |->   \* "engine::logs::list" (functions.rs:201)
        <<"e", "n", "g", "i", "n", "e", ":", ":", "l", "o", "g", "s", ":", ":", "l", "i", "s", "t">>,
      logs_clear |->   \* "engine::logs::clear" (functions.rs:214)
        <<"e", "n", "g", "i", "n", "e", ":", ":", "l", "o", "g", "s", ":", ":", "c", "l", "e", "a", "r">>,
      traces_list |->   \* "engine::traces::list" (functions.rs:226)
        <<"e", "n", "g", "i", "n", "e", ":", ":", "t", "r", "a", "c", "e", "s", ":", ":", "l", "i", "s", "t">>,
      traces_clear |->   \* "engine::traces::clear" (functions.rs:239)
        <<"e", "n", "g", "i", "n", "e", ":", ":", "t", "r", "a", "c", "e", "s", ":", ":", "c", "l", "e", "a", "r">>,
      traces_tree |->   \* "engine::traces::tree" (functions.rs:268)
        <<"e", "n", "g", "i", "n", "e", ":", ":", "t", "r", "a", "c", "e", "s", ":", ":", "t", "r", "e", "e">>,
      rollups_list |->   \* "engine::rollups::list" (functions.rs:295)
        <<"e", "n", "g", "i", "n", "e", ":", ":", "r", "o", "l", "l", "u", "p", "s", ":", ":", "l", "i", "s", "t">>,
      state_list_groups |->   \* "state::list_groups" (functions.rs:309)
        <<"s", "t", "a", "t", "e", ":", ":", "l", "i", "s", "t", "_", "g", "r", "o", "u", "p", "s">>,
      state_list |->   \* "state::list" (functions.rs:345)
        <<"s", "t", "a", "t", "e", ":", ":", "l", "i", "s", "t">>,
      state_set |->   \* "state::set" (functions.rs:425)
        <<"s", "t", "a", "t", "e", ":", ":", "s", "e", "t">>,
      state_delete |->   \* "state::delete" (functions.rs:472)
        <<"s", "t", "a", "t", "e", ":", ":", "d", "e", "l", "e", "t", "e">>,
      state_get |->   \* "state::get" (functions.rs:563)
        <<"s", "t", "a", "t", "e", ":", ":", "g", "e", "t">>,
      stream_list_all |->   \* "stream::list_all" (functions.rs:482)
        <<"s", "t", "r", "e", "a", "m", ":", ":", "l", "i", "s", "t", "_", "a", "l", "l">>]

\* the other string literals of the handlers
STR ==
    [ running |->   \* "running" (functions.rs:122)
        <<"r", "u", "n", "n", "i", "n", "g">>,
      cron |->   \* "cron" (functions.rs:701)
        <<"c", "r", "o", "n">>,
      console |->   \* "console" (functions.rs:706)
        <<"c", "o", "n", "s", "o", "l", "e">>,
      active |->   \* "active" (functions.rs:509)
        <<"a", "c", "t", "i", "v", "e">>,
      system |->   \* "system" (functions.rs:506)
        <<"s", "y", "s", "t", "e", "m">>,
      user |->   \* "user" (functions.rs:506)
        <<"u", "s", "e", "r">>,
      stream_suffix |->   \* " stream" (functions.rs:507)
        <<" ", "s", "t", "r", "e", "a", "m">>,
      iii_dot |->   \* "iii." (functions.rs:502)
        <<"i", "i", "i", ".">>,
      iii_colon |->   \* "iii:" (functions.rs:502)
        <<"i", "i", "i", ":">>,
      true_str |->   \* "true" (functions.rs:31)
        <<"t", "r", "u", "e">>,
      zero |->   \* "0" (functions.rs:699)
        <<"0">>]

-----------------------------------------------------------------------------
(* Input strings: identifiers and messages the environment supplies *)

EMPTY_STR == <<>>
ID_F1 == <<"f", "1">>
ID_F2 == <<"f", "-", "2", ".", "x">>
ID_BAD == <<"a", " ", "b">>
ID_NIGHTLY == <<"n", "i", "g", "h", "t", "l", "y">>
ID_OTHER == <<"o", "t", "h", "e", "r">>
ID_HTTP == <<"h", "t", "t", "p">>
ID_FN == <<"j", "o", "b", "s", ":", ":", "r", "u", "n">>
ID_G == <<"g">>
\* the names of the store's set and delete functions, as a request spells them
ID_STATE_SET == <<"s", "t", "a", "t", "e", ":", ":", "s", "e", "t">>
ID_STATE_DELETE == <<"s", "t", "a", "t", "e", ":", ":", "d", "e", "l", "e", "t", "e">>
ERR_CODE == <<"E", "4", "2">>
ERR_TEXT == <<"b", "o", "o", "m">>

-----------------------------------------------------------------------------
(* iii_sdk::IIIError (BridgeError) and Result *)

NotConnected == [kind |-> "NotConnected"]
Timeout == [kind |-> "Timeout"]
Remote(code, message) == [kind |-> "Remote", code |-> code, message |-> message]
Handler(msg) == [kind |-> "Handler", msg |-> msg]
Serde(msg) == [kind |-> "Serde", msg |-> msg]
WebSocket(msg) == [kind |-> "WebSocket", msg |-> msg]

\* the errors a remote call may end with
Errors ==
    {NotConnected, Timeout, Remote(ERR_CODE, ERR_TEXT), Remote(EMPTY_STR, ID_G),
     Handler(ERR_TEXT), Serde(ERR_TEXT), WebSocket(ERR_TEXT)}

Pending == [r |-> "Pending"]
Ok(v) == [r |-> "Ok", v |-> v]
Err(e) == [r |-> "Err", e |-> e]
NoResult == [r |-> "None"]

-----------------------------------------------------------------------------
(* bridge/error.rs: the response envelope builder *)

Envelope(status_code, body) ==
    JObj([status_code |-> JNum(status_code), headers |-> JArr(<<>>), body |-> body])

\* error_response: a plausible slip, Timeout answered with the status of NotConnected
error_response_swapped(error) ==
    LET sm ==
          CASE error.kind = "NotConnected" -> <<503, MSG.not_connected>>
            [] error.kind = "Timeout" -> <<503, MSG.timeout>>
            [] error.kind = "Remote" ->
                 <<502, MSG.remote_open \o error.code \o MSG.remote_sep \o error.message>>
            [] error.kind = "Handler" -> <<500, MSG.handler \o error.msg>>
            [] error.kind = "Serde" -> <<500, MSG.serde \o error.msg>>
            [] error.kind = "WebSocket" -> <<503, MSG.websocket \o error.msg>>
    IN  Envelope(sm[1], JObj([error |-> JStr(sm[2])]))

\* error_response: a plausible slip, the message placed directly as the body
error_response_flat(error) ==
    LET sm ==
          CASE error.kind = "NotConnected" -> <<503, MSG.not_connected>>
            [] error.kind = "Timeout" -> <<504, MSG.timeout>>
            [] error.kind = "Remote" ->
                 <<502, MSG.remote_open \o error.code \o MSG.remote_sep \o error.message>>
            [] error.kind = "Handler" -> <<500, MSG.handler \o error.msg>>
            [] error.kind = "Serde" -> <<500, MSG.serde \o error.msg>>
            [] error.kind = "WebSocket" -> <<503, MSG.websocket \o error.msg>>
    IN  JObj([status_code |-> JNum(sm[1]), headers |-> JArr(<<>>), error |-> JStr(sm[2])])

error_response(error) ==
    LET sm ==
          CASE error.kind = "NotConnected" -> <<503, MSG.not_connected>>
            [] error.kind = "Timeout" -> <<504, MSG.timeout>>
            [] error.kind = "Remote" ->
                 <<502, MSG.remote_open \o error.code \o MSG.remote_sep \o error.message>>
            [] error.kind = "Handler" -> <<500, MSG.handler \o error.msg>>
            [] error.kind = "Serde" -> <<500, MSG.serde \o error.msg>>
            [] error.kind = "WebSocket" -> <<503, MSG.websocket \o error.msg>>
    IN  Envelope(sm[1], JObj([error |-> JStr(sm[2])]))

success_response(body) == Envelope(200, body)

\* the match with the failure swallowed: Err(_) => success_response(json!({}))
ForwardResult_defaulting(res) ==
    IF res.r = "Ok" THEN success_response(res.v) ELSE success_response(EmptyObj)

\* match result { Ok(data) => success_response(data), Err(err) => error_response(err) }
ForwardResult(res) ==
    IF res.r = "Ok" THEN success_response(res.v) ELSE error_response(res.e)

-----------------------------------------------------------------------------
(* State *)

VARIABLES
    pc,       \* "idle", "await" (suspended on call_with_timeout), "done"
    fn,       \* the registered function being invoked, "none" when idle
    input,    \* its request envelope
    calls,    \* the remote calls issued by this invocation, in order
    result,   \* what the registered closure returned, NoResult before that
    store,    \* the engine's key-value state: <<scope, key>> -> value
    flowlog,  \* history: the last write to each key of FLOW_CONFIG_GROUP
    main_pc,  \* where main is: "register_functions", "register_triggers",
              \* "warn", "connect", "connecting", "serve"
    bridge    \* the III object: the functions and triggers installed on it, the
              \* error of register_triggers and the outcome of connect

vars == <<pc, fn, input, calls, result, store, flowlog, main_pc, bridge>>

-----------------------------------------------------------------------------
(* Startup: main registers the functions and the triggers on the bridge and  *)
(* then connects                                                             *)

\* the names register_functions installs, in the order of its register_function calls
function_names ==
    <<"engine::console::health", "engine::console::workers",
     "engine::console::functions", "engine::console::triggers",
     "engine::console::status", "engine::console::trigger_types",
     "engine::console::alerts_list", "engine::console::sampling_rules",
     "engine::console::otel_logs_list", "engine::console::otel_logs_clear",
     "engine::console::otel_traces_list", "engine::console::otel_traces_clear",
     "engine::console::otel_traces_tree", "engine::console::metrics_detailed",
     "engine::console::rollups_list", "engine::console::state_groups_list",
     "engine::console::state_group_items", "engine::console::state_item_set",
     "engine::console::state_item_delete", "engine::console::streams_list",
     "engine::console::flow_config_get", "engine::console::flow_config_save",
     "engine::console::invoke", "engine::console::cron_trigger">>

\* let triggers = vec![(function_path, api_path, method), ..]
trigger_table ==
    <<<<"engine::console::status", "_console/status", "GET">>,
     <<"engine::console::health", "_console/health", "GET">>,
     <<"engine::console::functions", "_console/functions", "GET">>,
     <<"engine::console::triggers", "_console/triggers", "GET">>,
     <<"engine::console::trigger_types", "_console/trigger-types", "GET">>,
     <<"engine::console::workers", "_console/workers", "GET">>,
     <<"engine::console::alerts_list", "_console/alerts", "GET">>,
     <<"engine::console::sampling_rules", "_console/sampling/rules", "GET">>,
     <<"engine::console::otel_logs_list", "_console/otel/logs", "POST">>,
     <<"engine::console::otel_logs_clear", "_console/otel/logs/clear", "POST">>,
     <<"engine::console::otel_traces_list", "_console/otel/traces", "POST">>,
     <<"engine::console::otel_traces_clear", "_console/otel/traces/clear", "POST">>,
     <<"engine::console::otel_traces_tree", "_console/otel/traces/tree", "POST">>,
     <<"engine::console::metrics_detailed", "_console/metrics/detailed", "POST">>,
     <<"engine::console::rollups_list", "_console/rollups", "POST">>,
     <<"engine::console::state_groups_list", "_console/states/groups", "GET">>,
     <<"engine::console::state_group_items", "_console/states/group", "POST">>,
     <<"engine::console::state_item_set", "_console/states/:group/item", "POST">>,
     <<"engine::console::state_item_delete", "_console/states/:group/item/:key", "DELETE">>,
     <<"engine::console::streams_list", "_console/streams/list", "GET">>,
     <<"engine::console::flow_config_get", "_console/flows/config/:flow_id", "GET">>,
     <<"engine::console::flow_config_save", "_console/flows/config/:flow_id", "POST">>>>

\* what bridge.register_trigger("http", function_path, config) installs, config
\* being json!({ "api_path": api_path, "http_method": method })
http_trigger(entry) ==
    [trigger_type |-> "http", function_path |-> entry[1],
     config |-> [api_path |-> entry[2], http_method |-> entry[3]]]

\* the bridge as III::new leaves it
new_bridge ==
    [functions |-> <<>>, triggers |-> <<>>,
     register_triggers |-> NoResult, connect |-> NoResult]

\* the bridge after a startup in which every registration and connect succeeded
served_bridge ==
    [functions |-> function_names,
     triggers |-> [i \in DOMAIN trigger_table |-> http_trigger(trigger_table[i])],
     register_triggers |-> Ok(JNull), connect |-> Ok(JNull)]

\* the function f is installed on the bridge
installed(f) == \E i \in DOMAIN bridge.functions : bridge.functions[i] = f

-----------------------------------------------------------------------------
(* Invocations *)

\* bridge.call_with_timeout(name, payload, Duration::from_secs(secs))
Call(name, payload, secs) ==
    [name |-> name, payload |-> payload, timeout |-> secs, res |-> Pending]

Settled == \A i \in DOMAIN calls : calls[i].res # Pending

\* the closure installed by register_function: async move { Ok(handle_x(..).await) }
RegisteredOk(resp) == Ok(resp)

\* a handler is dispatched with envelope env and suspends on the calls cs
Begin(f, env, cs) ==
    /\ main_pc = "serve" /\ installed(f)
    /\ fn' = f /\ input' = env /\ calls' = cs
    /\ pc' = "await" /\ result' = NoResult
    /\ UNCHANGED <<store, flowlog, main_pc, bridge>>

\* a handler is dispatched with envelope env and returns without a remote call
BeginReturn(f, env, resp) ==
    /\ main_pc = "serve" /\ installed(f)
    /\ fn' = f /\ input' = env /\ calls' = <<>>
    /\ pc' = "done" /\ result' = RegisteredOk(resp)
    /\ UNCHANGED <<store, flowlog, main_pc, bridge>>

\* the suspended handler resumes, all its calls settled, and returns resp
Finish(resp) ==
    /\ Settled
    /\ pc' = "done" /\ result' = RegisteredOk(resp)
    /\ UNCHANGED <<fn, input, calls, store, flowlog, main_pc, bridge>>

\* the suspended handler resumes, all its calls settled, and suspends on one more
Continue(c) ==
    /\ Settled
    /\ calls' = Append(calls, c)
    /\ UNCHANGED <<pc, fn, input, result, store, flowlog, main_pc, bridge>>

\* the console serving, after a startup in which nothing failed (the end of a
\* run of SpecMain), and no invocation yet
Init ==
    /\ pc = "idle" /\ fn = "none" /\ input = JNull /\ calls = <<>>
    /\ result = NoResult
    /\ store = [p \in {} |-> JNull]
    /\ flowlog = [k \in {} |-> "none"]
    /\ main_pc = "serve" /\ bridge = served_bridge

-----------------------------------------------------------------------------
(* Bounds of the inputs and of the remote payloads *)

\* longest "workers" / "functions" / "groups" / "stream" array a payload carries
MaxItems == 2
\* longest "triggers" array a payload carries
MaxTriggers == 2

\* the maps with at most the key k, bound to one of vals
Opt(k, vals) == {EmptyMap} \cup {k :> v : v \in vals}

\* envelopes of the handlers that ignore their input
AnyEnvelopes == {EmptyObj, JNull}

\* envelopes of the handlers that forward the body, or the envelope itself
BodyEnvelopes ==
    {EmptyObj, JStr(ID_G), JObj([limit |-> JNum(1)]),
     JObj([body |-> JObj([limit |-> JNum(1)])]), JObj([body |-> JNull])}

\* envelopes carrying the include_internal flag in every shape
FlagValues ==
    {JBool(TRUE), JBool(FALSE), JStr(STR.true_str), JStr(<<"T", "r", "U", "E">>),
     JStr(<<"T", "R", "U", "E">>), JStr(<<"f", "a", "l", "s", "e">>),
     JStr(<<"t", "r", "u", "e", " ">>), JStr(ID_OTHER), JStr(EMPTY_STR),
     JNum(1), JNull, JArr(<<JBool(TRUE)>>), JObj([include_internal |-> JBool(TRUE)])}
FlagEnvelopes ==
    {JNull} \cup
    {JObj(q @@ top) :
        q \in Opt("query_params",
                  {JNull} \cup {JObj(m) : m \in Opt("include_internal", FlagValues)}),
        top \in Opt("include_internal", {JBool(TRUE), JStr(STR.true_str), JNum(1)})}

-----------------------------------------------------------------------------
(* functions.rs: parse_bool_param *)

ASCII_UPPER == <<"A", "B", "C", "D", "E", "F", "G", "H", "I", "J", "K", "L", "M",
                 "N", "O", "P", "Q", "R", "S", "T", "U", "V", "W", "X", "Y", "Z">>
ASCII_LOWER == <<"a", "b", "c", "d", "e", "f", "g", "h", "i", "j", "k", "l", "m",
                 "n", "o", "p", "q", "r", "s", "t", "u", "v", "w", "x", "y", "z">>

\* char::to_ascii_lowercase
to_ascii_lowercase(c) ==
    IF \E i \in DOMAIN ASCII_UPPER : ASCII_UPPER[i] = c
    THEN ASCII_LOWER[CHOOSE i \in DOMAIN ASCII_UPPER : ASCII_UPPER[i] = c]
    ELSE c

\* str::eq_ignore_ascii_case
eq_ignore_ascii_case(a, b) ==
    /\ Len(a) = Len(b)
    /\ \A i \in DOMAIN a : to_ascii_lowercase(a[i]) = to_ascii_lowercase(b[i])

\* parse_bool_param with the string compared as it is: s == "true"
parse_bool_param_exact(inp, key) ==
    LET params == OrElse(Get(inp, "query_params"), inp)
        p == Get(params, key)
    IN  CASE p.t = "bool" -> p.v
          [] p.t = "str" -> p.v = STR.true_str
          [] OTHER -> FALSE

parse_bool_param(inp, key) ==
    LET params == OrElse(Get(inp, "query_params"), inp)
        p == Get(params, key)
    IN  CASE p.t = "bool" -> p.v
          [] p.t = "str" -> eq_ignore_ascii_case(p.v, STR.true_str)
          [] OTHER -> FALSE

\* input.get("body").cloned().unwrap_or(input)
effective_input(inp) == OrElse(Get(inp, "body"), inp)

-----------------------------------------------------------------------------
(* functions.rs: the handlers that forward one remote call *)

handle_health ==
    \/ /\ pc = "idle"
       /\ \E env \in AnyEnvelopes :
             Begin("engine::console::health", env, <<Call(RPC.health_check, EmptyObj, 5)>>)
    \/ /\ pc = "await" /\ fn = "engine::console::health"
       /\ Finish(ForwardResult(calls[1].res))

handle_workers ==
    \/ /\ pc = "idle"
       /\ \E env \in AnyEnvelopes :
             Begin("engine::console::workers", env, <<Call(RPC.workers_list, EmptyObj, 5)>>)
    \/ /\ pc = "await" /\ fn = "engine::console::workers"
       /\ Finish(ForwardResult(calls[1].res))

handle_triggers_list ==
    \/ /\ pc = "idle"
       /\ \E env \in FlagEnvelopes :
             Begin("engine::console::triggers", env,
                   <<Call(RPC.triggers_list,
                          JObj([include_internal |->
                                   JBool(parse_bool_param(env, "include_internal"))]), 5)>>)
    \/ /\ pc = "await" /\ fn = "engine::console::triggers"
       /\ Finish(ForwardResult(calls[1].res))

handle_functions_list ==
    \/ /\ pc = "idle"
       /\ \E env \in FlagEnvelopes :
             Begin("engine::console::functions", env,
                   <<Call(RPC.functions_list,
                          JObj([include_internal |->
                                   JBool(parse_bool_param(env, "include_internal"))]), 5)>>)
    \/ /\ pc = "await" /\ fn = "engine::console::functions"
       /\ Finish(ForwardResult(calls[1].res))

handle_alerts_list ==
    \/ /\ pc = "idle"
       /\ \E env \in AnyEnvelopes :
             Begin("engine::console::alerts_list", env, <<Call(RPC.alerts_list, EmptyObj, 5)>>)
    \/ /\ pc = "await" /\ fn = "engine::console::alerts_list"
       /\ Finish(ForwardResult(calls[1].res))

handle_sampling_rules ==
    \/ /\ pc = "idle"
       /\ \E env \in AnyEnvelopes :
             Begin("engine::console::sampling_rules", env,
                   <<Call(RPC.sampling_rules, EmptyObj, 5)>>)
    \/ /\ pc = "await" /\ fn = "engine::console::sampling_rules"
       /\ Finish(ForwardResult(calls[1].res))

handle_otel_logs_list ==
    \/ /\ pc = "idle"
       /\ \E env \in BodyEnvelopes :
             Begin("engine::console::otel_logs_list", env,
                   <<Call(RPC.logs_list, effective_input(env), 5)>>)
    \/ /\ pc = "await" /\ fn = "engine::console::otel_logs_list"
       /\ Finish(ForwardResult(calls[1].res))

handle_otel_logs_clear ==
    \/ /\ pc = "idle"
       /\ \E env \in AnyEnvelopes :
             Begin("engine::console::otel_logs_clear", env,
                   <<Call(RPC.logs_clear, EmptyObj, 5)>>)
    \/ /\ pc = "await" /\ fn = "engine::console::otel_logs_clear"
       /\ Finish(ForwardResult(calls[1].res))

handle_otel_traces_list ==
    \/ /\ pc = "idle"
       /\ \E env \in BodyEnvelopes :
             Begin("engine::console::otel_traces_list", env,
                   <<Call(RPC.traces_list, effective_input(env), 5)>>)
    \/ /\ pc = "await" /\ fn = "engine::console::otel_traces_list"
       /\ Finish(ForwardResult(calls[1].res))

handle_otel_traces_clear ==
    \/ /\ pc = "idle"
       /\ \E env \in AnyEnvelopes :
             Begin("engine::console::otel_traces_clear", env,
                   <<Call(RPC.traces_clear, EmptyObj, 5)>>)
    \/ /\ pc = "await" /\ fn = "engine::console::otel_traces_clear"
       /\ Finish(ForwardResult(calls[1].res))

handle_metrics_detailed ==
    \/ /\ pc = "idle"
       /\ \E env \in BodyEnvelopes :
             Begin("engine::console::metrics_detailed", env,
                   <<Call(RPC.metrics_list, effective_input(env), 5)>>)
    \/ /\ pc = "await" /\ fn = "engine::console::metrics_detailed"
       /\ Finish(ForwardResult(calls[1].res))

handle_rollups_list ==
    \/ /\ pc = "idle"
       /\ \E env \in BodyEnvelopes :
             Begin("engine::console::rollups_list", env,
                   <<Call(RPC.rollups_list, effective_input(env), 5)>>)
    \/ /\ pc = "await" /\ fn = "engine::console::rollups_list"
       /\ Finish(ForwardResult(calls[1].res))

-----------------------------------------------------------------------------
(* What the synchronous part of a handler ends with: an early return of a   *)
(* response, or a remote call to suspend on                                 *)

Ret(resp) == [k |-> "ret", resp |-> resp]
Go(call) == [k |-> "call", call |-> call]

Start(f, env, step) ==
    IF step.k = "ret" THEN BeginReturn(f, env, step.resp)
    ELSE Begin(f, env, <<step.call>>)

-----------------------------------------------------------------------------
(* functions.rs: validate_flow_id *)

ASCII_DIGIT == <<"0", "1", "2", "3", "4", "5", "6", "7", "8", "9">>
\* characters outside ASCII that char::is_alphanumeric accepts, by code point:
\* U+00E9 (a Latin letter with acute accent), U+0663 (an Arabic-Indic digit)
UNICODE_ALNUM == {"U+00E9", "U+0663"}

Range(s) == {s[i] : i \in DOMAIN s}

\* char::is_alphanumeric: Unicode Alphabetic or Numeric
is_alphanumeric(c) ==
    c \in Range(ASCII_UPPER) \cup Range(ASCII_LOWER) \cup Range(ASCII_DIGIT)
          \cup UNICODE_ALNUM

validate_flow_id(id) ==
    IF \/ id = <<>>
       \/ ~(\A i \in DOMAIN id : is_alphanumeric(id[i]) \/ id[i] \in {"-", "_", "."})
    THEN Err(error_response(Handler(MSG.invalid_flow_id \o id)))
    ELSE Ok(id)

-----------------------------------------------------------------------------
(* functions.rs: handle_otel_traces_tree *)

\* envelopes with the field k in the body (one of inner) and at top level (one
\* of outer), each present or not, the body an object or not
FieldEnvelopes(k, inner, outer) ==
    {JNull} \cup
    {JObj(b @@ top) :
        b \in Opt("body", {JStr(ID_G)} \cup {JObj(m) : m \in Opt(k, inner)}),
        top \in Opt(k, outer)}

otel_traces_tree_request(inp) ==
    LET trace_id == OrElse(AsStr(Get(Get(inp, "body"), "trace_id")),
                           AsStr(Get(inp, "trace_id")))
    IN  IF ~IsSome(trace_id)
        THEN Ret(error_response(Handler(MSG.missing_trace_id)))
        ELSE Go(Call(RPC.traces_tree, JObj([trace_id |-> trace_id]), 10))

handle_otel_traces_tree ==
    \/ /\ pc = "idle"
       /\ \E env \in FieldEnvelopes("trace_id", {JStr(ID_F1), JStr(EMPTY_STR), JNum(1)},
                                             {JStr(ID_F2), JNull}) :
             Start("engine::console::otel_traces_tree", env, otel_traces_tree_request(env))
    \/ /\ pc = "await" /\ fn = "engine::console::otel_traces_tree"
       /\ Finish(ForwardResult(calls[1].res))

-----------------------------------------------------------------------------
(* functions.rs: handle_state_groups_list, handle_state_group_items *)

\* the strings of a sequence of values: iter().filter_map(|g| g.as_str())
RECURSIVE FilterStr(_)
FilterStr(a) ==
    IF a = <<>> THEN <<>>
    ELSE (IF Head(a).t = "str" THEN <<Head(a)>> ELSE <<>>) \o FilterStr(Tail(a))

state_groups_list_response(res) ==
    IF res.r = "Err" THEN error_response(res.e)
    ELSE LET groups == AsArray(Get(res.v, "groups"))
         IN  IF IsSome(groups)
             THEN LET ids == FilterStr(groups.v)
                      group_objects ==
                          [i \in DOMAIN ids |-> JObj([id |-> ids[i], count |-> JNum(0)])]
                  IN  success_response(JObj([groups |-> JArr(group_objects),
                                             count |-> JNum(Len(group_objects))]))
             ELSE success_response(JObj([groups |-> JArr(<<>>), count |-> JNum(0)]))

handle_state_groups_list ==
    \/ /\ pc = "idle"
       /\ \E env \in AnyEnvelopes :
             Begin("engine::console::state_groups_list", env,
                   <<Call(RPC.state_list_groups, EmptyObj, 5)>>)
    \/ /\ pc = "await" /\ fn = "engine::console::state_groups_list"
       /\ Finish(state_groups_list_response(calls[1].res))

\* handle_state_group_items: a plausible slip, a missing scope defaulted to ""
state_group_items_request_defaulted(inp) ==
    LET scope == OrElse(AsStr(Get(Get(inp, "body"), "scope")), AsStr(Get(inp, "scope")))
    IN  Go(Call(RPC.state_list, JObj([scope |-> OrElse(scope, JStr(EMPTY_STR))]), 5))

state_group_items_request(inp) ==
    LET scope == OrElse(AsStr(Get(Get(inp, "body"), "scope")), AsStr(Get(inp, "scope")))
    IN  IF IsSome(scope)
        THEN Go(Call(RPC.state_list, JObj([scope |-> scope]), 5))
        ELSE Ret(error_response(Handler(MSG.missing_scope)))

state_group_items_response(res) ==
    IF res.r = "Err" THEN error_response(res.e)
    ELSE IF res.v.t = "arr"
         THEN success_response(JObj([items |-> res.v, count |-> JNum(Len(res.v.v))]))
         ELSE success_response(JObj([items |-> JArr(<<>>), count |-> JNum(0)]))

handle_state_group_items ==
    \/ /\ pc = "idle"
       /\ \E env \in FieldEnvelopes("scope", {JStr(ID_G), JNum(1)},
                                          {JStr(FLOW_CONFIG_GROUP), JNull}) :
             Start("engine::console::state_group_items", env, state_group_items_request(env))
    \/ /\ pc = "await" /\ fn = "engine::console::state_group_items"
       /\ Finish(state_group_items_response(calls[1].res))

-----------------------------------------------------------------------------
(* functions.rs: handle_state_item_set, handle_state_item_delete *)

\* values a console user stores
VALUE_A == JObj([a |-> JNum(1)])
\* a record of the shape flow_config_save writes, naming another flow
VALUE_FOREIGN == JObj([id |-> JStr(ID_OTHER), config |-> EmptyObj])

StateItemSetEnvelopes ==
    {JNull} \cup
    {JObj(p @@ b @@ top) :
        p \in Opt("path_params",
                  {JObj(m) : m \in Opt("group", {JStr(FLOW_CONFIG_GROUP), JStr(ID_G),
                                                 JNum(1)})}),
        b \in Opt("body",
                  {JStr(ID_G)} \cup
                  {JObj(k @@ v) : k \in Opt("key", {JStr(ID_F1), JNum(1)}),
                                  v \in Opt("value", {VALUE_FOREIGN, JNull})}),
        top \in {EmptyMap, [group |-> JStr(ID_G), key |-> JStr(ID_F1), value |-> VALUE_A]}}

state_item_set_request(inp) ==
    LET path_params == Get(inp, "path_params")
        body == Get(inp, "body")
        group_id == OrElse(AsStr(Get(path_params, "group")), AsStr(Get(inp, "group")))
        item_id == OrElse(AsStr(Get(body, "key")), AsStr(Get(inp, "key")))
        data == OrElse(Get(body, "value"), Get(inp, "value"))
    IN  IF ~IsSome(group_id) THEN Ret(error_response(Handler(MSG.missing_group)))
        ELSE IF ~IsSome(item_id) THEN Ret(error_response(Handler(MSG.missing_key_body)))
        ELSE IF ~IsSome(data) THEN Ret(error_response(Handler(MSG.missing_value)))
        ELSE Go(Call(RPC.state_set,
                     JObj([scope |-> group_id, key |-> item_id, value |-> data]), 5))

handle_state_item_set ==
    \/ /\ pc = "idle"
       /\ \E env \in StateItemSetEnvelopes :
             Start("engine::console::state_item_set", env, state_item_set_request(env))
    \/ /\ pc = "await" /\ fn = "engine::console::state_item_set"
       /\ Finish(ForwardResult(calls[1].res))

StateItemDeleteEnvelopes ==
    {JNull} \cup
    {JObj(p @@ top) :
        p \in Opt("path_params",
                  {JObj(g @@ k) :
                      g \in Opt("group", {JStr(FLOW_CONFIG_GROUP), JStr(ID_G), JNum(1)}),
                      k \in Opt("key", {JStr(ID_F1), JNull})}),
        top \in {EmptyMap, [group |-> JStr(ID_G)], [key |-> JStr(ID_F1)]}}

state_item_delete_request(inp) ==
    LET path_params == Get(inp, "path_params")
        group_id == OrElse(AsStr(Get(path_params, "group")), AsStr(Get(inp, "group")))
        item_id == OrElse(AsStr(Get(path_params, "key")), AsStr(Get(inp, "key")))
    IN  IF ~IsSome(group_id) THEN Ret(error_response(Handler(MSG.missing_group)))
        ELSE IF ~IsSome(item_id) THEN Ret(error_response(Handler(MSG.missing_key_path)))
        ELSE Go(Call(RPC.state_delete, JObj([scope |-> group_id, key |-> item_id]), 5))

handle_state_item_delete ==
    \/ /\ pc = "idle"
       /\ \E env \in StateItemDeleteEnvelopes :
             Start("engine::console::state_item_delete", env, state_item_delete_request(env))
    \/ /\ pc = "await" /\ fn = "engine::console::state_item_delete"
       /\ Finish(ForwardResult(calls[1].res))

-----------------------------------------------------------------------------
(* functions.rs: handle_flow_config_get, handle_flow_config_save *)

\* an id with a letter outside ASCII
ID_UNI == <<"f", "U+00E9">>

FlowConfigGetEnvelopes ==
    {JNull} \cup
    {JObj(p @@ q @@ top) :
        p \in Opt("path_params",
                  {JObj(m) : m \in Opt("flow_id", {JStr(ID_F1), JStr(ID_F2), JStr(ID_BAD),
                                                   JStr(ID_UNI), JStr(EMPTY_STR), JNum(1)})}),
        q \in Opt("query_params", {JObj([flow_id |-> JStr(ID_F2)])}),
        top \in Opt("flow_id", {JStr(ID_F1)})}

\* json!({ "id": flow_id, "config": {} })
default_flow_config(flow_id) == JObj([id |-> JStr(flow_id), config |-> EmptyObj])

flow_config_get_request(inp) ==
    LET flow_id == OrElse(AsStr(Get(Get(inp, "path_params"), "flow_id")),
                   OrElse(AsStr(Get(Get(inp, "query_params"), "flow_id")),
                          AsStr(Get(inp, "flow_id"))))
    IN  IF ~IsSome(flow_id) THEN Ret(error_response(Handler(MSG.missing_flow_id)))
        ELSE LET valid == validate_flow_id(flow_id.v)
             IN  IF valid.r = "Err" THEN Ret(valid.e)
                 ELSE Go(Call(RPC.state_get,
                              JObj([scope |-> JStr(FLOW_CONFIG_GROUP),
                                    key |-> JStr(valid.v)]), 5))

\* handle_flow_config_get: a plausible slip, a failed state get surfaced as an error
flow_config_get_response_strict(flow_id, res) ==
    IF res.r = "Ok"
    THEN IF res.v.t = "null" THEN success_response(default_flow_config(flow_id))
         ELSE success_response(res.v)
    ELSE error_response(res.e)

flow_config_get_response(flow_id, res) ==
    IF res.r = "Ok"
    THEN IF res.v.t = "null" THEN success_response(default_flow_config(flow_id))
         ELSE success_response(res.v)
    ELSE success_response(default_flow_config(flow_id))

handle_flow_config_get ==
    \/ /\ pc = "idle"
       /\ \E env \in FlowConfigGetEnvelopes :
             Start("engine::console::flow_config_get", env, flow_config_get_request(env))
    \/ /\ pc = "await" /\ fn = "engine::console::flow_config_get"
       /\ Finish(flow_config_get_response(calls[1].payload.v.key.v, calls[1].res))

FlowConfigSaveEnvelopes ==
    {JNull} \cup
    {JObj(p @@ b @@ top) :
        p \in Opt("path_params",
                  {JObj(m) : m \in Opt("flow_id", {JStr(ID_F1), JStr(ID_BAD), JNum(1)})}),
        b \in Opt("body",
                  {JStr(ID_G)} \cup
                  {JObj(i @@ c) : i \in Opt("id", {JStr(ID_F2)}),
                                  c \in Opt("config", {VALUE_A, JNum(7)})}),
        top \in {EmptyMap, [id |-> JStr(ID_F1), config |-> VALUE_A]}}

\* handle_flow_config_save: a plausible slip, the config stored bare, without its id
flow_config_save_request_bare(inp) ==
    LET body == OrElse(Get(inp, "body"), inp)
        flow_id == OrElse(AsStr(Get(Get(inp, "path_params"), "flow_id")),
                          AsStr(Get(body, "id")))
    IN  IF ~IsSome(flow_id) THEN Ret(error_response(Handler(MSG.missing_flow_id)))
        ELSE LET valid == validate_flow_id(flow_id.v)
             IN  IF valid.r = "Err" THEN Ret(valid.e)
                 ELSE Go(Call(RPC.state_set,
                              JObj([scope |-> JStr(FLOW_CONFIG_GROUP),
                                    key |-> JStr(valid.v),
                                    value |-> OrElse(Get(body, "config"), EmptyObj)]), 5))

\* handle_flow_config_save: a plausible slip, the flow id not validated
flow_config_save_request_unvalidated(inp) ==
    LET body == OrElse(Get(inp, "body"), inp)
        flow_id == OrElse(AsStr(Get(Get(inp, "path_params"), "flow_id")),
                          AsStr(Get(body, "id")))
    IN  IF ~IsSome(flow_id) THEN Ret(error_response(Handler(MSG.missing_flow_id)))
        ELSE Go(Call(RPC.state_set,
                     JObj([scope |-> JStr(FLOW_CONFIG_GROUP), key |-> flow_id,
                           value |-> JObj([id |-> flow_id,
                                           config |-> OrElse(Get(body, "config"),
                                                             EmptyObj)])]), 5))

flow_config_save_request(inp) ==
    LET body == OrElse(Get(inp, "body"), inp)
        flow_id == OrElse(AsStr(Get(Get(inp, "path_params"), "flow_id")),
                          AsStr(Get(body, "id")))
    IN  IF ~IsSome(flow_id) THEN Ret(error_response(Handler(MSG.missing_flow_id)))
        ELSE LET valid == validate_flow_id(flow_id.v)
                 config == OrElse(Get(body, "config"), EmptyObj)
             IN  IF valid.r = "Err" THEN Ret(valid.e)
                 ELSE LET data == JObj([id |-> JStr(valid.v), config |-> config])
                      IN  Go(Call(RPC.state_set,
                                  JObj([scope |-> JStr(FLOW_CONFIG_GROUP),
                                        key |-> JStr(valid.v), value |-> data]), 5))

\* handle_flow_config_save: a plausible slip, the outcome of the state set ignored
flow_config_save_response_blind(res) ==
    success_response(JObj([message |-> JStr(MSG.flow_saved)]))

flow_config_save_response(res) ==
    IF res.r = "Ok" THEN success_response(JObj([message |-> JStr(MSG.flow_saved)]))
    ELSE error_response(res.e)

handle_flow_config_save ==
    \/ /\ pc = "idle"
       /\ \E env \in FlowConfigSaveEnvelopes :
             Start("engine::console::flow_config_save", env, flow_config_save_request(env))
    \/ /\ pc = "await" /\ fn = "engine::console::flow_config_save"
       /\ Finish(flow_config_save_response(calls[1].res))

-----------------------------------------------------------------------------
(* functions.rs: handle_invoke *)

InvokeEnvelopes ==
    {JNull} \cup
    {JObj(b @@ top) :
        b \in Opt("body",
                  {JStr(ID_G)} \cup
                  {JObj(f @@ i) : f \in Opt("function_id", {JStr(ID_FN), JStr(EMPTY_STR),
                                                            JStr(ID_STATE_SET), JNum(1)}),
                                  i \in Opt("input", {VALUE_A})}),
        top \in {EmptyMap, [function_id |-> JStr(ID_OTHER)], [input |-> JNum(7)]}}

\* handle_invoke: a plausible slip, the invocation given the deadline of a read
invoke_request_read_deadline(inp) ==
    LET body == OrElse(Get(inp, "body"), inp)
        function_id == OrElse(AsStr(Get(body, "function_id")),
                              AsStr(Get(inp, "function_id")))
        data == OrElse(OrElse(Get(body, "input"), Get(inp, "input")), EmptyObj)
    IN  IF ~IsSome(function_id)
        THEN Ret(error_response(Handler(MSG.missing_function_id)))
        ELSE Go(Call(function_id.v, data, 5))

invoke_request(inp) ==
    LET body == OrElse(Get(inp, "body"), inp)
        function_id == OrElse(AsStr(Get(body, "function_id")),
                              AsStr(Get(inp, "function_id")))
        data == OrElse(OrElse(Get(body, "input"), Get(inp, "input")), EmptyObj)
    IN  IF ~IsSome(function_id)
        THEN Ret(error_response(Handler(MSG.missing_function_id)))
        ELSE Go(Call(function_id.v, data, 30))

handle_invoke ==
    \/ /\ pc = "idle"
       /\ \E env \in InvokeEnvelopes :
             Start("engine::console::invoke", env, invoke_request(env))
    \/ /\ pc = "await" /\ fn = "engine::console::invoke"
       /\ Finish(ForwardResult(calls[1].res))

-----------------------------------------------------------------------------
(* functions.rs: handle_status *)

\* result.ok().and_then(|v| v.get(field).and_then(as_array).map(len)).unwrap_or(0)
array_count(res, field) ==
    IF res.r = "Ok"
    THEN LET a == AsArray(Get(res.v, field))
         IN  IF IsSome(a) THEN Len(a.v) ELSE 0
    ELSE 0

\* handle_status: a plausible slip, the error of the worker list propagated
status_response_propagating(workers_result, functions_result, metrics_result) ==
    IF workers_result.r = "Err" THEN error_response(workers_result.e)
    ELSE success_response(JObj([
             workers |-> JNum(array_count(workers_result, "workers")),
             functions |-> JNum(array_count(functions_result, "functions")),
             status |-> JStr(STR.running),
             metrics_available |-> JBool(metrics_result.r = "Ok")]))

status_response(workers_result, functions_result, metrics_result) ==
    success_response(JObj([
        workers |-> JNum(array_count(workers_result, "workers")),
        functions |-> JNum(array_count(functions_result, "functions")),
        status |-> JStr(STR.running),
        metrics_available |-> JBool(metrics_result.r = "Ok")]))

\* a join that completes as soon as one of its futures has (select!, not join!)
join_ready_first(cs) == \E i \in DOMAIN cs : cs[i].res # Pending

\* tokio::join!: completes when every one of its futures has completed
join_ready(cs) == \A i \in DOMAIN cs : cs[i].res # Pending

handle_status ==
    \/ /\ pc = "idle"
       /\ \E env \in AnyEnvelopes :
             Begin("engine::console::status", env,
                   <<Call(RPC.workers_list, EmptyObj, 5),
                     Call(RPC.functions_list, JObj([include_internal |-> JBool(TRUE)]), 5),
                     Call(RPC.metrics_list, EmptyObj, 5)>>)
    \/ /\ pc = "await" /\ fn = "engine::console::status" /\ join_ready(calls)
       /\ pc' = "done"
       /\ result' = RegisteredOk(status_response(calls[1].res, calls[2].res, calls[3].res))
       /\ UNCHANGED <<fn, input, calls, store, flowlog, main_pc, bridge>>

-----------------------------------------------------------------------------
(* functions.rs: handle_trigger_types *)

\* the printable ASCII characters in code point order, from U+0020; the three
\* that a string literal here cannot hold are written by code point
ASCII_PRINTABLE ==
    <<" ", "!", "U+0022", "#", "$", "%", "&", "'", "(", ")", "*", "+", ",", "-", ".", "/",
      "0", "1", "2", "3", "4", "5", "6", "7", "8", "9", ":", ";", "<", "=", ">", "?",
      "@", "A", "B", "C", "D", "E", "F", "G", "H", "I", "J", "K", "L", "M", "N", "O",
      "P", "Q", "R", "S", "T", "U", "V", "W", "X", "Y", "Z", "[", "U+005C", "]", "^", "_",
      "U+0060", "a", "b", "c", "d", "e", "f", "g", "h", "i", "j", "k", "l", "m", "n", "o",
      "p", "q", "r", "s", "t", "u", "v", "w", "x", "y", "z", "{", "|", "}", "~">>

\* the static_types vector of handle_trigger_types
static_types ==
    <<<<"a", "p", "i">>,
      <<"e", "v", "e", "n", "t">>,
      <<"s", "u", "b", "s", "c", "r", "i", "b", "e">>,
      <<"c", "r", "o", "n">>,
      <<"l", "o", "g">>,
      <<"s", "t", "r", "e", "a", "m", ":", ":", "j", "o", "i", "n">>,
      <<"s", "t", "r", "e", "a", "m", ":", ":", "l", "e", "a", "v", "e">>,
      <<"s", "t", "a", "t", "e">>,
      <<"e", "n", "g", "i", "n", "e", ":", ":", "f", "u", "n", "c", "t", "i", "o", "n", "s", "-", "a", "v", "a", "i", "l", "a", "b", "l", "e">>>>

\* the code point of a character
CodePoint(c) ==
    CASE c = "U+00E9" -> 233
      [] c = "U+0663" -> 1635
      [] OTHER -> 31 + (CHOOSE i \in DOMAIN ASCII_PRINTABLE : ASCII_PRINTABLE[i] = c)

\* String's Ord: lexicographic by code point
StrLeq(a, b) ==
    LET n == IF Len(a) < Len(b) THEN Len(a) ELSE Len(b)
        diff == {i \in 1..n : a[i] # b[i]}
    IN  IF diff = {} THEN Len(a) <= Len(b)
        ELSE LET i == CHOOSE i \in diff : \A j \in diff : i <= j
             IN  CodePoint(a[i]) < CodePoint(b[i])

\* Vec::sort of the strings of a set (HashSet::into_iter().collect(), then sort)
RECURSIVE SortStrings(_)
SortStrings(S) ==
    IF S = {} THEN <<>>
    ELSE LET m == CHOOSE x \in S : \A y \in S : StrLeq(x, y)
         IN  <<m>> \o SortStrings(S \ {m})

\* the string trigger_type values of the "triggers" array, if there is one
discovered_types(triggers_data) ==
    LET triggers == AsArray(Get(triggers_data, "triggers"))
    IN  IF IsSome(triggers)
        THEN {AsStr(Get(triggers.v[i], "trigger_type")).v :
                 i \in {j \in DOMAIN triggers.v :
                           IsSome(AsStr(Get(triggers.v[j], "trigger_type")))}}
        ELSE {}

\* the response with the fallback left in the order of static_types
trigger_types_response_unsorted(res) ==
    IF res.r = "Ok"
    THEN LET types_vec == SortStrings(Range(static_types) \cup discovered_types(res.v))
         IN  success_response(JObj([trigger_types |->
                 JArr([i \in DOMAIN types_vec |-> JStr(types_vec[i])])]))
    ELSE success_response(JObj([trigger_types |->
             JArr([i \in DOMAIN static_types |-> JStr(static_types[i])])]))

trigger_types_response(res) ==
    LET types == IF res.r = "Ok"
                 THEN Range(static_types) \cup discovered_types(res.v)
                 ELSE Range(static_types)
        types_vec == SortStrings(types)
    IN  success_response(JObj([trigger_types |->
                                  JArr([i \in DOMAIN types_vec |-> JStr(types_vec[i])])]))

handle_trigger_types ==
    \/ /\ pc = "idle"
       /\ \E env \in AnyEnvelopes :
             Begin("engine::console::trigger_types", env,
                   <<Call(RPC.triggers_list, JObj([include_internal |-> JBool(TRUE)]), 5)>>)
    \/ /\ pc = "await" /\ fn = "engine::console::trigger_types"
       /\ Finish(trigger_types_response(calls[1].res))

-----------------------------------------------------------------------------
(* functions.rs: handle_streams_list *)

\* str::starts_with
starts_with(s, p) == Len(s) >= Len(p) /\ SubSeq(s, 1, Len(p)) = p

\* the stream object with only the prefix "iii." taken for internal
stream_object_dot_only(stream) ==
    LET id == OrElse(AsStr(Get(stream, "id")), JStr(EMPTY_STR)).v
        g == AsArray(Get(stream, "groups"))
        groups == IF IsSome(g) THEN FilterStr(g.v) ELSE <<>>
        is_internal == starts_with(id, STR.iii_dot)
    IN  JObj([id |-> JStr(id),
              type |-> JStr(IF is_internal THEN STR.system ELSE STR.user),
              description |-> JStr(id \o STR.stream_suffix),
              groups |-> JArr(groups),
              status |-> JStr(STR.active),
              internal |-> JBool(is_internal)])

stream_object(stream) ==
    LET id == OrElse(AsStr(Get(stream, "id")), JStr(EMPTY_STR)).v
        g == AsArray(Get(stream, "groups"))
        groups == IF IsSome(g) THEN FilterStr(g.v) ELSE <<>>
        is_internal == starts_with(id, STR.iii_dot) \/ starts_with(id, STR.iii_colon)
    IN  JObj([id |-> JStr(id),
              type |-> JStr(IF is_internal THEN STR.system ELSE STR.user),
              description |-> JStr(id \o STR.stream_suffix),
              groups |-> JArr(groups),
              status |-> JStr(STR.active),
              internal |-> JBool(is_internal)])

streams_list_response(res) ==
    IF res.r = "Err" THEN error_response(res.e)
    ELSE LET streams == AsArray(Get(res.v, "stream"))
         IN  IF IsSome(streams)
             THEN success_response(JObj([
                      streams |-> JArr([i \in DOMAIN streams.v |->
                                           stream_object(streams.v[i])]),
                      count |-> JNum(Len(streams.v)),
                      websocket_port |-> JNum(3112)]))
             ELSE success_response(JObj([streams |-> JArr(<<>>), count |-> JNum(0),
                                         websocket_port |-> JNum(3112)]))

handle_streams_list ==
    \/ /\ pc = "idle"
       /\ \E env \in AnyEnvelopes :
             Begin("engine::console::streams_list", env,
                   <<Call(RPC.stream_list_all, EmptyObj, 10)>>)
    \/ /\ pc = "await" /\ fn = "engine::console::streams_list"
       /\ Finish(streams_list_response(calls[1].res))

-----------------------------------------------------------------------------
(* functions.rs: handle_cron_trigger *)

\* SystemTime::now() in seconds since the epoch, as a string
Clock == {STR.zero, <<"1", "7", "6", "2">>}

CronEnvelopes ==
    {JNull} \cup
    {JObj(b @@ top) :
        b \in Opt("body",
                  {JObj(t @@ f) :
                      t \in Opt("trigger_id", {JStr(ID_NIGHTLY), JStr(EMPTY_STR), JNum(1)}),
                      f \in Opt("function_id", {JStr(ID_FN), JStr(EMPTY_STR),
                                                JStr(ID_STATE_DELETE)})}),
        top \in {EmptyMap, [trigger_id |-> JStr(ID_OTHER)], [function_id |-> JStr(ID_OTHER)]}}

cron_trigger_id(inp) ==
    LET body == OrElse(Get(inp, "body"), inp)
    IN  OrElse(AsStr(Get(body, "trigger_id")), AsStr(Get(inp, "trigger_id")))

provided_function_id(inp) ==
    LET body == OrElse(Get(inp, "body"), inp)
    IN  OrElse(AsStr(Get(body, "function_id")), AsStr(Get(inp, "function_id")))

\* the payload with scheduled_time left at the fallback "0" of the clock read
cron_payload_unscheduled(trigger_id, now) ==
    JObj([trigger |-> JStr(STR.cron), job_id |-> JStr(trigger_id),
          scheduled_time |-> JStr(STR.zero), actual_time |-> JStr(now),
          manual |-> JBool(TRUE), source |-> JStr(STR.console)])

\* the payload of the re-invocation, the clock read once
cron_payload(trigger_id, now) ==
    JObj([trigger |-> JStr(STR.cron), job_id |-> JStr(trigger_id),
          scheduled_time |-> JStr(now), actual_time |-> JStr(now),
          manual |-> JBool(TRUE), source |-> JStr(STR.console)])

\* the synchronous part with the trigger looked up whatever the request supplies
cron_trigger_request_always_lookup(inp, now) ==
    LET trigger_id == cron_trigger_id(inp)
    IN  IF ~IsSome(trigger_id) \/ trigger_id.v = <<>>
        THEN Ret(error_response(Handler(MSG.missing_trigger_id)))
        ELSE Go(Call(RPC.triggers_list, JObj([include_internal |-> JBool(TRUE)]), 5))

\* the synchronous part: trigger_id, then the supplied function or the lookup
cron_trigger_request(inp, now) ==
    LET trigger_id == cron_trigger_id(inp)
        provided == provided_function_id(inp)
    IN  IF ~IsSome(trigger_id) \/ trigger_id.v = <<>>
        THEN Ret(error_response(Handler(MSG.missing_trigger_id)))
        ELSE IF IsSome(provided)
             THEN Go(Call(provided.v, cron_payload(trigger_id.v, now), 30))
             ELSE Go(Call(RPC.triggers_list, JObj([include_internal |-> JBool(TRUE)]), 5))

\* triggers.iter().find(|t| t.id == trigger_id): the first entry with that id
trigger_match(triggers_data, trigger_id) ==
    LET triggers == AsArray(Get(triggers_data, "triggers"))
    IN  IF ~IsSome(triggers) THEN Absent
        ELSE LET hits == {i \in DOMAIN triggers.v :
                             AsStr(Get(triggers.v[i], "id")) = JStr(trigger_id)}
             IN  IF hits = {} THEN Absent
                 ELSE triggers.v[CHOOSE i \in hits : \A j \in hits : i <= j]

\* cron resolution: a plausible slip, the trigger_type of the entry not checked
cron_resolve_untyped(triggers_data, trigger_id) ==
    LET trigger == trigger_match(triggers_data, trigger_id)
        function_id == AsStr(Get(trigger, "function_id"))
    IN  IF ~IsSome(trigger)
        THEN Err(Handler(MSG.cron_trigger_open \o trigger_id \o MSG.not_found_close))
        ELSE IF IsSome(function_id) /\ function_id.v # <<>>
        THEN Ok(function_id.v)
        ELSE Err(Handler(MSG.cron_trigger_open \o trigger_id \o MSG.no_function_id_close))

\* the function of the trigger found in the list, or the Handler error
cron_resolve(triggers_data, trigger_id) ==
    LET trigger == trigger_match(triggers_data, trigger_id)
        trigger_type == OrElse(AsStr(Get(trigger, "trigger_type")), JStr(EMPTY_STR)).v
        function_id == AsStr(Get(trigger, "function_id"))
    IN  IF ~IsSome(trigger)
        THEN Err(Handler(MSG.cron_trigger_open \o trigger_id \o MSG.not_found_close))
        ELSE IF trigger_type # STR.cron
        THEN Err(Handler(MSG.trigger_open \o trigger_id \o MSG.not_cron_close))
        ELSE IF IsSome(function_id) /\ function_id.v # <<>>
        THEN Ok(function_id.v)
        ELSE Err(Handler(MSG.cron_trigger_open \o trigger_id \o MSG.no_function_id_close))

\* the step after the trigger list call, with the list asked for once more
\* when the call failed
cron_trigger_lookup_done_retrying(inp, res, now) ==
    IF res.r = "Err"
    THEN Go(Call(RPC.triggers_list, JObj([include_internal |-> JBool(TRUE)]), 5))
    ELSE LET trigger_id == cron_trigger_id(inp).v
             resolved == cron_resolve(res.v, trigger_id)
         IN  IF resolved.r = "Err" THEN Ret(error_response(resolved.e))
             ELSE Go(Call(resolved.v, cron_payload(trigger_id, now), 30))

\* after the trigger list call: its error, a resolution error, or the invocation
cron_trigger_lookup_done(inp, res, now) ==
    IF res.r = "Err" THEN Ret(error_response(res.e))
    ELSE LET trigger_id == cron_trigger_id(inp).v
             resolved == cron_resolve(res.v, trigger_id)
         IN  IF resolved.r = "Err" THEN Ret(error_response(resolved.e))
             ELSE Go(Call(resolved.v, cron_payload(trigger_id, now), 30))

\* after the invocation of the function
cron_trigger_response(inp, call) ==
    IF call.res.r = "Ok"
    THEN success_response(JObj([trigger_id |-> JStr(cron_trigger_id(inp).v),
                                function_id |-> JStr(call.name),
                                result |-> call.res.v]))
    ELSE error_response(call.res.e)

\* whether the invocation of the function has been issued: at once when the
\* request supplies function_id, after the trigger list call otherwise
cron_invoked == IsSome(provided_function_id(input)) \/ Len(calls) = 2

handle_cron_trigger ==
    \/ /\ pc = "idle"
       /\ \E env \in CronEnvelopes, now \in Clock :
             Start("engine::console::cron_trigger", env, cron_trigger_request(env, now))
    \/ /\ pc = "await" /\ fn = "engine::console::cron_trigger" /\ ~cron_invoked
       /\ Settled
       /\ \E now \in Clock :
             LET step == cron_trigger_lookup_done(input, calls[1].res, now)
             IN  IF step.k = "ret"
                 THEN Finish(step.resp)
                 ELSE Continue(step.call)
    \/ /\ pc = "await" /\ fn = "engine::console::cron_trigger" /\ cron_invoked
       /\ Finish(cron_trigger_response(input, calls[Len(calls)]))

-----------------------------------------------------------------------------
(* The remote engine, reached through III::call_with_timeout: a call ends   *)
(* with a payload or with an error                                          *)

SeqsUpTo(S, n) == UNION {[1..k -> S] : k \in 0..n}

GenericPayloads == {JNull, JObj([ok |-> JBool(TRUE)])}

CountPayloads(field) ==
    {JObj(field :> JArr([i \in 1..n |-> JNum(i)])) : n \in 0..MaxItems}
        \cup {JObj(field :> JStr(ID_G)), EmptyObj, JNull}

\* remote trigger descriptors: {id, trigger_type, function_id}, fields present or not
TriggerEntries ==
    {JObj([id |-> JStr(ID_NIGHTLY), trigger_type |-> JStr(STR.cron),
           function_id |-> JStr(ID_FN)]),
     JObj([id |-> JStr(ID_NIGHTLY), trigger_type |-> JStr(ID_HTTP),
           function_id |-> JStr(ID_FN)]),
     JObj([id |-> JStr(ID_NIGHTLY), trigger_type |-> JStr(STR.cron),
           function_id |-> JStr(EMPTY_STR)]),
     JObj([id |-> JStr(ID_NIGHTLY), trigger_type |-> JStr(STR.cron)]),
     JObj([id |-> JStr(ID_NIGHTLY)]),
     JObj([id |-> JStr(ID_OTHER), trigger_type |-> JNum(1)]),
     JObj([id |-> JStr(ID_OTHER), trigger_type |-> JStr(<<"Q", "u", "e", "u", "e">>)]),
     JObj([id |-> JStr(ID_OTHER), trigger_type |-> JStr(STR.cron),
           function_id |-> JStr(ID_OTHER)]),
     JObj([trigger_type |-> JStr(STR.cron), function_id |-> JStr(ID_FN)])}

TriggerPayloads ==
    {JObj([triggers |-> JArr(s)]) : s \in SeqsUpTo(TriggerEntries, MaxTriggers)}
        \cup {JObj([triggers |-> JNum(1)]), EmptyObj, JNull}

ID_ORDERS == <<"o", "r", "d", "e", "r", "s">>

StreamEntries ==
    {JObj([id |-> JStr(STR.iii_dot \o <<"x">>), groups |-> JArr(<<JStr(ID_G), JNum(1)>>)]),
     JObj([id |-> JStr(STR.iii_colon)]),
     JObj([id |-> JStr(ID_ORDERS), groups |-> JStr(ID_G)]),
     JObj([id |-> JStr(<<"i", "i", "i">>)]),
     JObj([id |-> JNum(7)]),
     EmptyObj}

StreamPayloads ==
    {JObj([stream |-> JArr(s)]) : s \in SeqsUpTo(StreamEntries, MaxItems)}
        \cup {JObj([stream |-> JNum(1)]), JNull}

GroupPayloads ==
    {JObj([groups |-> JArr(s)]) : s \in SeqsUpTo({JStr(ID_G), JNum(1)}, MaxItems)}
        \cup {EmptyObj}

RemotePayloads(name) ==
    CASE name = RPC.workers_list -> CountPayloads("workers")
      [] name = RPC.functions_list -> CountPayloads("functions")
      [] name = RPC.triggers_list -> TriggerPayloads
      [] name = RPC.stream_list_all -> StreamPayloads
      [] name = RPC.state_list_groups -> GroupPayloads
      [] name = RPC.state_list -> {JArr(<<>>), JArr(<<VALUE_A, JNull>>), EmptyObj}
      [] name = RPC.state_get ->
           {JNull, JObj([id |-> JStr(ID_F1), config |-> VALUE_A]), VALUE_FOREIGN, JNum(1)}
      [] OTHER -> GenericPayloads

\* a pending call ends, with any payload or any error
RemoteSettle ==
    /\ pc = "await"
    /\ \E i \in DOMAIN calls :
          /\ calls[i].res = Pending
          /\ \E out \in {Ok(p) : p \in RemotePayloads(calls[i].name)}
                          \cup {Err(e) : e \in Errors} :
                calls' = [calls EXCEPT ![i].res = out]
    /\ UNCHANGED <<pc, fn, input, result, store, flowlog, main_pc, bridge>>

\* the response is handed to the transport and the invocation is over
Return ==
    /\ pc = "done"
    /\ pc' = "idle" /\ fn' = "none" /\ input' = JNull /\ calls' = <<>>
    /\ result' = NoResult
    /\ UNCHANGED <<store, flowlog, main_pc, bridge>>

Next ==
    \/ handle_health
    \/ handle_workers
    \/ handle_triggers_list
    \/ handle_functions_list
    \/ handle_status
    \/ handle_trigger_types
    \/ handle_alerts_list
    \/ handle_sampling_rules
    \/ handle_otel_logs_list
    \/ handle_otel_logs_clear
    \/ handle_otel_traces_list
    \/ handle_otel_traces_clear
    \/ handle_otel_traces_tree
    \/ handle_metrics_detailed
    \/ handle_rollups_list
    \/ handle_state_groups_list
    \/ handle_state_group_items
    \/ handle_state_item_set
    \/ handle_state_item_delete
    \/ handle_streams_list
    \/ handle_flow_config_get
    \/ handle_flow_config_save
    \/ handle_invoke
    \/ handle_cron_trigger
    \/ RemoteSettle
    \/ Return

Spec == Init /\ [][Next]_vars

-----------------------------------------------------------------------------
(* The engine's state module as a key-value map: state::get, state::set,    *)
(* state::delete, state::list and state::list_groups act on store           *)

StoreGet(scope, key) ==
    IF <<scope, key>> \in DOMAIN store THEN store[<<scope, key>>] ELSE JNull

\* the values stored under a scope, by key
StoreList(scope) ==
    LET keys == SortStrings({p[2] : p \in {q \in DOMAIN store : q[1] = scope}})
    IN  JArr([i \in DOMAIN keys |-> store[<<scope, keys[i]>>]])

StoreGroups ==
    LET scopes == SortStrings({p[1] : p \in DOMAIN store})
    IN  JObj([groups |-> JArr([i \in DOMAIN scopes |-> JStr(scopes[i])])])

\* the config a flow_config_save request supplies: that of its body (the body
\* field, or the envelope itself), the empty object when there is none
SuppliedConfig(env) ==
    LET body == IF Get(env, "body").t # "absent" THEN Get(env, "body") ELSE env
    IN  IF Get(body, "config").t # "absent" THEN Get(body, "config") ELSE EmptyObj

\* the history of a key of FLOW_CONFIG_GROUP after a write
Logged(scope, key, entry) ==
    IF scope = FLOW_CONFIG_GROUP THEN (key :> entry) @@ flowlog ELSE flowlog

\* a pending state call ends: with an error and no effect, or with its effect
\* on the store and its result
StoreSettle ==
    /\ pc = "await"
    /\ \E i \in DOMAIN calls :
          /\ calls[i].res = Pending
          /\ LET name == calls[i].name
                 p == calls[i].payload.v
             IN  \/ /\ \E e \in Errors : calls' = [calls EXCEPT ![i].res = Err(e)]
                    /\ UNCHANGED <<store, flowlog, main_pc, bridge>>
                 \/ /\ name = RPC.state_get
                    /\ calls' = [calls EXCEPT ![i].res = Ok(StoreGet(p.scope.v, p.key.v))]
                    /\ UNCHANGED <<store, flowlog, main_pc, bridge>>
                 \/ /\ name = RPC.state_set
                    /\ store' = (<<p.scope.v, p.key.v>> :> p.value) @@ store
                    /\ flowlog' =
                          Logged(p.scope.v, p.key.v,
                                 IF fn = "engine::console::flow_config_save"
                                 THEN [by |-> "save", config |-> SuppliedConfig(input)]
                                 ELSE [by |-> "set"])
                    /\ calls' = [calls EXCEPT ![i].res = Ok(p.value)]
                 \/ /\ name = RPC.state_delete
                    /\ store' = [q \in DOMAIN store \ {<<p.scope.v, p.key.v>>} |-> store[q]]
                    /\ flowlog' = Logged(p.scope.v, p.key.v, [by |-> "delete"])
                    /\ calls' = [calls EXCEPT ![i].res = Ok(StoreGet(p.scope.v, p.key.v))]
                 \/ /\ name = RPC.state_list
                    /\ calls' = [calls EXCEPT ![i].res = Ok(StoreList(p.scope.v))]
                    /\ UNCHANGED <<store, flowlog, main_pc, bridge>>
                 \/ /\ name = RPC.state_list_groups
                    /\ calls' = [calls EXCEPT ![i].res = Ok(StoreGroups)]
                    /\ UNCHANGED <<store, flowlog, main_pc, bridge>>
    /\ UNCHANGED <<pc, fn, input, result, main_pc, bridge>>

NextKV ==
    \/ handle_state_groups_list
    \/ handle_state_group_items
    \/ handle_state_item_set
    \/ handle_state_item_delete
    \/ handle_flow_config_get
    \/ handle_flow_config_save
    \/ StoreSettle
    \/ Return

\* the console against a state store that behaves as a key-value map
SpecKV == Init /\ [][NextKV]_vars

-----------------------------------------------------------------------------
(* Startup of the process: main.rs                                           *)

\* main before bridge::register_functions: no invocation yet, the bridge new
InitMain ==
    /\ pc = "idle" /\ fn = "none" /\ input = JNull /\ calls = <<>>
    /\ result = NoResult
    /\ store = [p \in {} |-> JNull]
    /\ flowlog = [k \in {} |-> "none"]
    /\ main_pc = "register_functions" /\ bridge = new_bridge

\* bridge::register_functions(&bridge): its next bridge.register_function call
register_functions ==
    /\ main_pc = "register_functions"
    /\ LET i == Len(bridge.functions) + 1
       IN  /\ bridge' = [bridge EXCEPT !.functions = Append(@, function_names[i])]
           /\ main_pc' = IF i = Len(function_names) THEN "register_triggers"
                         ELSE main_pc
    /\ UNCHANGED <<pc, fn, input, calls, result, store, flowlog>>

\* bridge::register_triggers(&bridge): the next turn of its loop,
\* bridge.register_trigger("http", function_path, config)?, which installs the
\* trigger or makes register_triggers return the error at once
register_triggers ==
    /\ main_pc = "register_triggers"
    /\ LET k == Len(bridge.triggers) + 1
       IN  \/ /\ bridge' = [bridge EXCEPT
                    !.triggers = Append(@, http_trigger(trigger_table[k])),
                    !.register_triggers =
                        IF k = Len(trigger_table) THEN Ok(JNull) ELSE @]
              /\ main_pc' = IF k = Len(trigger_table) THEN "connect" ELSE main_pc
           \/ /\ \E e \in Errors :
                    bridge' = [bridge EXCEPT !.register_triggers = Err(e)]
              /\ main_pc' = "warn"
    /\ UNCHANGED <<pc, fn, input, calls, result, store, flowlog>>

\* if let Err(e) = bridge::register_triggers(&bridge) { tracing::warn!(..) }
main_warn ==
    /\ main_pc = "warn"
    /\ main_pc' = "connect"
    /\ UNCHANGED <<pc, fn, input, calls, result, store, flowlog, bridge>>

\* bridge.connect() is called: the handshake starts
main_connect ==
    /\ main_pc = "connect"
    /\ main_pc' = "connecting"
    /\ UNCHANGED <<pc, fn, input, calls, result, store, flowlog, bridge>>

\* bridge.connect().await returns; an error is only warned of and main goes on
\* to run the server
connect_settle ==
    /\ main_pc = "connecting"
    /\ \E r \in {Ok(JNull)} \cup {Err(e) : e \in Errors} :
          bridge' = [bridge EXCEPT !.connect = r]
    /\ main_pc' = "serve"
    /\ UNCHANGED <<pc, fn, input, calls, result, store, flowlog>>

NextMain ==
    \/ register_functions
    \/ register_triggers
    \/ main_warn
    \/ main_connect
    \/ connect_settle

\* the startup of the console, every outcome of register_trigger and connect
SpecMain == InitMain /\ [][NextMain]_vars

-----------------------------------------------------------------------------
(* The pure functions of functions.rs, applied to inputs of their own        *)

\* longest id given to validate_flow_id
MaxIdLen == 3

\* characters of the ids: letters, a digit, the three marks the validation
\* names, a space, a slash, and a letter and a digit outside ASCII
FlowIdChars == {"a", "Z", "7", "-", "_", ".", " ", "/", "U+00E9", "U+0663"}

FlowIds == UNION {[1..n -> FlowIdChars] : n \in 0..MaxIdLen}

\* a function and an input for it
InitFn ==
    /\ pc = "idle" /\ calls = <<>> /\ result = NoResult
    /\ \/ fn = "validate_flow_id" /\ input \in {JStr(id) : id \in FlowIds}
       \/ fn = "parse_bool_param" /\ input \in FlagEnvelopes
    /\ store = [p \in {} |-> JNull]
    /\ flowlog = [k \in {} |-> "none"]
    /\ main_pc = "serve" /\ bridge = served_bridge

\* validate_flow_id(&flow_id)
call_validate_flow_id ==
    /\ pc = "idle" /\ fn = "validate_flow_id"
    /\ result' = validate_flow_id(input.v)
    /\ pc' = "done"
    /\ UNCHANGED <<fn, input, calls, store, flowlog, main_pc, bridge>>

\* parse_bool_param(&input, "include_internal")
call_parse_bool_param ==
    /\ pc = "idle" /\ fn = "parse_bool_param"
    /\ result' = Ok(JBool(parse_bool_param(input, "include_internal")))
    /\ pc' = "done"
    /\ UNCHANGED <<fn, input, calls, store, flowlog, main_pc, bridge>>

NextFn ==
    \/ call_validate_flow_id
    \/ call_parse_bool_param

SpecFn == InitFn /\ [][NextFn]_vars

-----------------------------------------------------------------------------
(* The properties checked.  The definitions below restate what the          *)
(* documentation of the console says, independently of the handlers above.  *)

\* the status of the documented error table
TableStatus(e) ==
    CASE e.kind \in {"Handler", "Serde"} -> 500
      [] e.kind = "Remote" -> 502
      [] e.kind \in {"NotConnected", "WebSocket"} -> 503
      [] e.kind = "Timeout" -> 504

\* the message of the documented error table
TableMessage(e) ==
    CASE e.kind = "NotConnected" -> MSG.not_connected
      [] e.kind = "Timeout" -> MSG.timeout
      [] e.kind = "Remote" -> MSG.remote_open \o e.code \o MSG.remote_sep \o e.message
      [] e.kind = "Handler" -> MSG.handler \o e.msg
      [] e.kind = "Serde" -> MSG.serde \o e.msg
      [] e.kind = "WebSocket" -> MSG.websocket \o e.msg

\* failure(E): {status_code, headers: [], body: {error: message}}
Failure(e) ==
    Ok(JObj([status_code |-> JNum(TableStatus(e)), headers |-> JArr(<<>>),
             body |-> JObj([error |-> JStr(TableMessage(e))])]))

\* success(body): {200, [], body}
Success(body) ==
    Ok(JObj([status_code |-> JNum(200), headers |-> JArr(<<>>), body |-> body]))

\* the finished invocation answered with a Handler error (status 500) whose
\* message is text
IsHandlerError(text) == result = Failure(Handler(text))

\* the message of the error response of the finished invocation
ErrorMessage == result.v.v.body.v.error.v

\* the handlers that answer the error of their one remote call as it is
ReadForwarders ==
    {"engine::console::health", "engine::console::workers", "engine::console::triggers",
     "engine::console::functions", "engine::console::alerts_list",
     "engine::console::sampling_rules", "engine::console::otel_logs_list",
     "engine::console::otel_logs_clear", "engine::console::otel_traces_list",
     "engine::console::otel_traces_clear", "engine::console::otel_traces_tree",
     "engine::console::metrics_detailed", "engine::console::rollups_list",
     "engine::console::state_groups_list", "engine::console::state_group_items",
     "engine::console::streams_list"}

\* C1: for every error variant, error_response yields exactly the status and the
\* message of the documented table, in the envelope {status_code, headers: [],
\* body: {error: message}}: whenever a forwarding handler has answered the error
\* of its call, the response is the row of that error.
C1_ErrorTable ==
    (pc = "done" /\ fn \in ReadForwarders /\ calls # <<>> /\ calls[1].res.r = "Err")
        => result = Failure(calls[1].res.e)

\* a Remote error, with its code and message, has been answered by a handler
C1_Witness ==
    /\ pc = "done" /\ fn = "engine::console::health"
    /\ calls[1].res = Err(Remote(ERR_CODE, ERR_TEXT))
    /\ result.v.v.status_code = JNum(502)

\* C2: every invocation of a registered function, whatever the envelope and
\* whatever the outcome of its remote calls, ends by returning Ok with a
\* response envelope whose status_code, headers and body are all present: status
\* 200, or an error status with body.error a string; the registered closure
\* never returns Err.
C2_AlwaysEnvelope ==
    /\ result.r \in {"None", "Ok"}
    /\ pc = "done" =>
          /\ result.r = "Ok"
          /\ result.v.t = "obj"
          /\ DOMAIN result.v.v = {"status_code", "headers", "body"}
          /\ result.v.v.headers = JArr(<<>>)
          /\ \/ result.v.v.status_code = JNum(200)
             \/ /\ result.v.v.status_code \in {JNum(500), JNum(502), JNum(503), JNum(504)}
                /\ AsStr(Get(result.v.v.body, "error")).t = "str"

\* an envelope that is not an object has been answered with an error envelope
C2_Witness ==
    /\ pc = "done" /\ input = JNull /\ fn = "engine::console::state_item_set"
    /\ result.v.v.status_code = JNum(500)

\* the names of the required fields, as they appear in a message
NAME_TRACE_ID == <<"t", "r", "a", "c", "e", "_", "i", "d">>
NAME_SCOPE == <<"s", "c", "o", "p", "e">>
NAME_GROUP == <<"g", "r", "o", "u", "p">>
NAME_KEY == <<"k", "e", "y">>
NAME_VALUE == <<"v", "a", "l", "u", "e">>
NAME_FLOW_ID == <<"f", "l", "o", "w", "_", "i", "d">>
NAME_FUNCTION_ID == <<"f", "u", "n", "c", "t", "i", "o", "n", "_", "i", "d">>
NAME_TRIGGER_ID == <<"t", "r", "i", "g", "g", "e", "r", "_", "i", "d">>

HasStr(v, k) == Get(v, k).t = "str"
Has(v, k) == Get(v, k).t # "absent"

\* the flow id a flow_config_get request names: path, then query, then top level
RequestedGetId(env) ==
    IF HasStr(Get(env, "path_params"), "flow_id") THEN Get(Get(env, "path_params"), "flow_id")
    ELSE IF HasStr(Get(env, "query_params"), "flow_id")
         THEN Get(Get(env, "query_params"), "flow_id")
    ELSE IF HasStr(env, "flow_id") THEN Get(env, "flow_id")
    ELSE Absent

\* the body of a request: its body field, or the envelope itself
BodyOrEnvelope(env) == IF Has(env, "body") THEN Get(env, "body") ELSE env

\* the flow id a flow_config_save request names: path, then the id of the body
RequestedSaveId(env) ==
    IF HasStr(Get(env, "path_params"), "flow_id") THEN Get(Get(env, "path_params"), "flow_id")
    ELSE IF HasStr(BodyOrEnvelope(env), "id") THEN Get(BodyOrEnvelope(env), "id")
    ELSE Absent

\* a flow id is there and validate_flow_id accepts it
ValidId(id) == id.t = "str" /\ validate_flow_id(id.v).r = "Ok"

\* the required fields of handler f that the envelope env does not provide
MissingFields(f, env) ==
    LET body == Get(env, "body")
        path == Get(env, "path_params")
        NoStr(k, name) == IF HasStr(body, k) \/ HasStr(env, k) THEN {} ELSE {name}
        NoPathStr(k, name) == IF HasStr(path, k) \/ HasStr(env, k) THEN {} ELSE {name}
    IN  CASE f = "engine::console::otel_traces_tree" -> NoStr("trace_id", NAME_TRACE_ID)
          [] f = "engine::console::state_group_items" -> NoStr("scope", NAME_SCOPE)
          [] f = "engine::console::state_item_set" ->
               NoPathStr("group", NAME_GROUP) \cup NoStr("key", NAME_KEY)
                  \cup (IF Has(body, "value") \/ Has(env, "value") THEN {} ELSE {NAME_VALUE})
          [] f = "engine::console::state_item_delete" ->
               NoPathStr("group", NAME_GROUP) \cup NoPathStr("key", NAME_KEY)
          [] f = "engine::console::flow_config_get" ->
               IF ValidId(RequestedGetId(env)) THEN {} ELSE {NAME_FLOW_ID}
          [] f = "engine::console::flow_config_save" ->
               IF ValidId(RequestedSaveId(env)) THEN {} ELSE {NAME_FLOW_ID}
          [] f = "engine::console::invoke" -> NoStr("function_id", NAME_FUNCTION_ID)
          [] f = "engine::console::cron_trigger" ->
               IF \/ HasStr(body, "trigger_id") /\ Get(body, "trigger_id").v # <<>>
                  \/ /\ ~HasStr(body, "trigger_id")
                     /\ HasStr(env, "trigger_id") /\ Get(env, "trigger_id").v # <<>>
               THEN {} ELSE {NAME_TRIGGER_ID}
          [] OTHER -> {}

\* C3: in every handler that has a required field, when a required field is
\* missing or invalid the invocation returns a Handler error (status 500) whose
\* message names a field that is missing (the field, when one is missing), and
\* the invocation issues no remote call: nothing is put in place of the field.
C3_MissingFieldNoCall ==
    (pc # "idle" /\ MissingFields(fn, input) # {}) =>
        /\ pc = "done" /\ calls = <<>>
        /\ result.r = "Ok"
        /\ result.v.v.status_code = JNum(500)
        /\ SubSeq(ErrorMessage, 1, Len(MSG.handler)) = MSG.handler
        /\ \E name \in MissingFields(fn, input) : Contains(ErrorMessage, name)

\* state_item_set with a group and a value but no key has been answered
C3_Witness ==
    /\ pc = "done" /\ fn = "engine::console::state_item_set"
    /\ MissingFields(fn, input) = {NAME_KEY}
    /\ calls = <<>>
    /\ IsHandlerError(MSG.missing_key_body)

\* the length of the array under field of a successful result, else 0
CountOf(res, field) ==
    IF res.r = "Ok" /\ res.v.t = "obj" /\ field \in DOMAIN res.v.v
       /\ res.v.v[field].t = "arr"
    THEN Len(res.v.v[field].v) ELSE 0

\* C4: the status endpoint answers success (200) for every combination of
\* outcomes of its three calls, with workers and functions the lengths of the
\* "workers" and "functions" arrays (0 when the call failed or the field is
\* absent or no array) and metrics_available true exactly when the metrics call
\* succeeded; the error of a call is never the response.
C4_StatusAlwaysSuccess ==
    (pc = "done" /\ fn = "engine::console::status") =>
        /\ result.r = "Ok"
        /\ result.v.v.status_code = JNum(200)
        /\ Get(result.v.v.body, "workers") = JNum(CountOf(calls[1].res, "workers"))
        /\ Get(result.v.v.body, "functions") = JNum(CountOf(calls[2].res, "functions"))
        /\ Get(result.v.v.body, "metrics_available") = JBool(calls[3].res.r = "Ok")
        /\ ~Has(result.v.v.body, "error")

\* workers lists two items, the function list fails, metrics succeeds
C4_Witness ==
    /\ pc = "done" /\ fn = "engine::console::status"
    /\ CountOf(calls[1].res, "workers") = 2
    /\ calls[2].res = Err(Timeout)
    /\ calls[3].res.r = "Ok"
    /\ result.v.v.body =
          JObj([workers |-> JNum(2), functions |-> JNum(0), status |-> JStr(STR.running),
                metrics_available |-> JBool(TRUE)])

\* C5: in the status aggregator the three remote calls are issued together,
\* before any of them has ended, and the response is composed only after all
\* three have ended, each with success or failure: there is no response while a
\* call is pending.
C5_JoinAll ==
    (fn = "engine::console::status") =>
        /\ Len(calls) = 3
        /\ calls[1].name = RPC.workers_list
        /\ calls[2].name = RPC.functions_list
        /\ calls[3].name = RPC.metrics_list
        /\ pc = "done" => \A i \in 1..3 : calls[i].res # Pending
        /\ (\E i \in 1..3 : calls[i].res = Pending) => (pc = "await" /\ result = NoResult)

\* the metrics call has failed first, the other two are still pending and there
\* is no response yet
C5_Witness ==
    /\ fn = "engine::console::status" /\ pc = "await"
    /\ calls[3].res = Err(NotConnected)
    /\ calls[1].res = Pending /\ calls[2].res = Pending
    /\ result = NoResult

\* C6: against a state store that behaves as a key-value map, flow_config_get of
\* a valid id whose last write was a successful flow_config_save(id, config)
\* answers success with body {id, config}, the config that request supplied; and
\* of an id never written it answers success with body {id, config: {}}.
C6_FlowConfigRoundTrip ==
    (pc = "done" /\ fn = "engine::console::flow_config_get"
        /\ ValidId(RequestedGetId(input))) =>
        LET id == RequestedGetId(input).v
        IN  /\ (Len(calls) = 1 /\ calls[1].res.r = "Ok"
                  /\ id \in DOMAIN flowlog /\ flowlog[id].by = "save")
                   => result = Success(JObj([id |-> JStr(id),
                                             config |-> flowlog[id].config]))
            /\ id \notin DOMAIN flowlog
                   => result = Success(JObj([id |-> JStr(id), config |-> EmptyObj]))

\* save("f1", {a: 1}) succeeded and a later get("f1") has answered {id, config}
C6_Witness ==
    /\ pc = "done" /\ fn = "engine::console::flow_config_get"
    /\ RequestedGetId(input) = JStr(ID_F1)
    /\ ID_F1 \in DOMAIN flowlog
    /\ flowlog[ID_F1] = [by |-> "save", config |-> VALUE_A]
    /\ result = Success(JObj([id |-> JStr(ID_F1), config |-> VALUE_A]))

\* C7: flow_config_get with a valid id issues one state get under the flow-config
\* namespace with key = id, and when that call returns null or fails with any
\* error the response is success with body {id, config: {}}: the failure of the
\* store is never the response.
C7_FlowConfigGetDegrades ==
    (pc # "idle" /\ fn = "engine::console::flow_config_get"
        /\ ValidId(RequestedGetId(input))) =>
        /\ Len(calls) = 1
        /\ calls[1].name = RPC.state_get
        /\ calls[1].payload =
              JObj([scope |-> JStr(FLOW_CONFIG_GROUP), key |-> RequestedGetId(input)])
        /\ (pc = "done" /\ (calls[1].res = Ok(JNull) \/ calls[1].res.r = "Err"))
              => result = Success(JObj([id |-> RequestedGetId(input), config |-> EmptyObj]))

\* the state get timed out and the response is the default config, status 200
C7_Witness ==
    /\ pc = "done" /\ fn = "engine::console::flow_config_get"
    /\ Len(calls) = 1 /\ calls[1].res = Err(Timeout)
    /\ result = Success(JObj([id |-> JStr(ID_F2), config |-> EmptyObj]))

\* C8: flow_config_save with a valid id issues exactly one state set with scope the
\* flow-config namespace, key = id and value {id, config}, the config being the
\* one the request supplies or the empty object; it answers success only when
\* that call succeeded, and failure(E) when the call failed with E.
C8_FlowConfigSavePropagates ==
    (pc # "idle" /\ fn = "engine::console::flow_config_save"
        /\ ValidId(RequestedSaveId(input))) =>
        LET id == RequestedSaveId(input)
            c == IF Has(BodyOrEnvelope(input), "config")
                 THEN Get(BodyOrEnvelope(input), "config") ELSE EmptyObj
        IN  /\ Len(calls) = 1
            /\ calls[1].name = RPC.state_set
            /\ calls[1].payload =
                  JObj([scope |-> JStr(FLOW_CONFIG_GROUP), key |-> id,
                        value |-> JObj([id |-> id, config |-> c])])
            /\ pc = "done" =>
                  /\ (result.v.v.status_code = JNum(200)) <=> (calls[1].res.r = "Ok")
                  /\ calls[1].res.r = "Err" => result = Failure(calls[1].res.e)

\* a save without a config wrote {id, config: {}}, the set failed, and the
\* response is the error of the set
C8_Witness ==
    /\ pc = "done" /\ fn = "engine::console::flow_config_save"
    /\ Len(calls) = 1
    /\ calls[1].payload.v.value = JObj([id |-> JStr(ID_F2), config |-> EmptyObj])
    /\ calls[1].res = Err(Remote(ERR_CODE, ERR_TEXT))
    /\ result = Failure(Remote(ERR_CODE, ERR_TEXT))

\* the endpoints whose contract demands that a failure be visible
VisibleHandlers ==
    {"engine::console::state_item_set", "engine::console::state_item_delete",
     "engine::console::invoke", "engine::console::cron_trigger",
     "engine::console::flow_config_save"}

\* C9: in state_item_set, state_item_delete, invoke, cron_trigger (its trigger
\* list lookup included) and flow_config_save, whenever a remote call of the
\* invocation failed with E the response is exactly failure(E) of the table:
\* not another variant, not a default and not a success.
C9_ErrorsPassThrough ==
    (pc = "done" /\ fn \in VisibleHandlers) =>
        \A i \in DOMAIN calls :
            calls[i].res.r = "Err" => result = Failure(calls[i].res.e)

\* the trigger list lookup of cron_trigger timed out and the response is 504
C9_Witness ==
    /\ pc = "done" /\ fn = "engine::console::cron_trigger"
    /\ Len(calls) = 1 /\ calls[1].name = RPC.triggers_list
    /\ calls[1].res = Err(Timeout)
    /\ result = Failure(Timeout)
    /\ result.v.v.status_code = JNum(504)

\* what the three cron resolution errors say
MARK_NOT_FOUND == <<"n", "o", "t", " ", "f", "o", "u", "n", "d">>
MARK_NOT_CRON == <<"n", "o", "t", " ", "a", " ", "c", "r", "o", "n", " ", "t", "r", "i", "g", "g", "e", "r">>
MARK_NO_FUNCTION == <<"n", "o", " ", "f", "u", "n", "c", "t", "i", "o", "n", "_", "i", "d">>

\* the trigger_id of a cron_trigger request: that of the body, else top level
RequestedTriggerId(env) ==
    IF HasStr(Get(env, "body"), "trigger_id") THEN Get(Get(env, "body"), "trigger_id").v
    ELSE Get(env, "trigger_id").v

\* the case of the cron resolution for the trigger list data: 1 no entry with
\* the id, 2 the entry found is not of type cron, 3 it has no function_id, 0 none
ResolutionCase(data, tid) ==
    LET list == IF Get(data, "triggers").t = "arr" THEN Get(data, "triggers").v ELSE <<>>
        hits == {i \in DOMAIN list : HasStr(list[i], "id") /\ Get(list[i], "id").v = tid}
        found == list[CHOOSE i \in hits : \A j \in hits : i <= j]
    IN  IF hits = {} THEN 1
        ELSE IF ~(HasStr(found, "trigger_type") /\ Get(found, "trigger_type").v = STR.cron)
        THEN 2
        ELSE IF ~(HasStr(found, "function_id") /\ Get(found, "function_id").v # <<>>)
        THEN 3
        ELSE 0

\* C10: cron resolution without a supplied function_id, the trigger list fetched:
\* (1) no entry with the trigger_id gives a Handler error containing the
\* trigger_id and "not found"; (2) an entry found whose type is not cron gives a
\* Handler error naming the mismatch; (3) an entry found, of type cron, with no
\* or an empty function_id gives a third Handler error.  Each message carries the
\* words of its case and not those of the other two, so the three differ, and in
\* all three cases no target function is invoked.
C10_CronResolutionErrors ==
    (pc # "idle" /\ fn = "engine::console::cron_trigger"
        /\ MissingFields(fn, input) = {}
        /\ ~HasStr(Get(input, "body"), "function_id") /\ ~HasStr(input, "function_id")
        /\ calls[1].res.r = "Ok") =>
        LET tid == RequestedTriggerId(input)
            case == ResolutionCase(calls[1].res.v, tid)
            marks == <<MARK_NOT_FOUND, MARK_NOT_CRON, MARK_NO_FUNCTION>>
        IN  case # 0 =>
              /\ Len(calls) = 1 /\ calls[1].name = RPC.triggers_list
              /\ pc = "done" =>
                    /\ result.v.v.status_code = JNum(500)
                    /\ SubSeq(ErrorMessage, 1, Len(MSG.handler)) = MSG.handler
                    /\ Contains(ErrorMessage, tid)
                    /\ \A k \in 1..3 : Contains(ErrorMessage, marks[k]) <=> (k = case)

\* "nightly" is in the list with another type than cron, and the answer names it
C10_Witness ==
    /\ pc = "done" /\ fn = "engine::console::cron_trigger"
    /\ Len(calls) = 1 /\ calls[1].res.r = "Ok"
    /\ ~HasStr(Get(input, "body"), "function_id") /\ ~HasStr(input, "function_id")
    /\ RequestedTriggerId(input) = ID_NIGHTLY
    /\ ResolutionCase(calls[1].res.v, ID_NIGHTLY) = 2
    /\ Contains(ErrorMessage, MARK_NOT_CRON)

\* the position of the invocation of the target function among the calls of a
\* cron_trigger invocation: first when the request supplies function_id, else
\* second, after the trigger list lookup
SuppliesFunctionId(env) ==
    HasStr(Get(env, "body"), "function_id") \/ HasStr(env, "function_id")

InvocationIndex(env) == IF SuppliesFunctionId(env) THEN 1 ELSE 2

\* C11: the payload cron_trigger sends to the function it invokes is {trigger:
\* "cron", job_id, scheduled_time, actual_time, manual: true, source: "console"},
\* job_id the trigger_id of the request and the two times the same string; and
\* when the invocation succeeds with r the response is success with body
\* {trigger_id, function_id, result: r}, function_id the function invoked.
C11_CronPayload ==
    (pc # "idle" /\ fn = "engine::console::cron_trigger"
        /\ Len(calls) >= InvocationIndex(input)) =>
        LET call == calls[InvocationIndex(input)]
            tid == JStr(RequestedTriggerId(input))
            p == call.payload
        IN  /\ p.t = "obj"
            /\ DOMAIN p.v = {"trigger", "job_id", "scheduled_time", "actual_time",
                             "manual", "source"}
            /\ p.v.trigger = JStr(<<"c", "r", "o", "n">>)
            /\ p.v.job_id = tid
            /\ p.v.scheduled_time.t = "str"
            /\ p.v.scheduled_time = p.v.actual_time
            /\ p.v.manual = JBool(TRUE)
            /\ p.v.source = JStr(<<"c", "o", "n", "s", "o", "l", "e">>)
            /\ (pc = "done" /\ call.res.r = "Ok") =>
                  result = Success(JObj([trigger_id |-> tid,
                                         function_id |-> JStr(call.name),
                                         result |-> call.res.v]))

\* the function of "nightly" was looked up and invoked at time "1762", and its
\* result came back in the body
C11_Witness ==
    /\ pc = "done" /\ fn = "engine::console::cron_trigger"
    /\ Len(calls) = 2 /\ calls[2].res.r = "Ok"
    /\ calls[2].name = ID_FN
    /\ calls[2].payload.v.scheduled_time = JStr(<<"1", "7", "6", "2">>)
    /\ calls[2].payload.v.job_id = JStr(ID_NIGHTLY)
    /\ result.v.v.status_code = JNum(200)
    /\ result.v.v.body.v.function_id = JStr(ID_FN)

\* C12: registration before connect.  Whenever the connection handshake has
\* started, every function of register_functions and every trigger of the
\* table of register_triggers is installed on the bridge, in every startup run,
\* those in which a trigger registration returns an error included.
C12_RegisteredBeforeConnect ==
    main_pc \in {"connecting", "serve"} =>
        /\ \A i \in DOMAIN function_names : installed(function_names[i])
        /\ \A k \in DOMAIN trigger_table :
              \E j \in DOMAIN bridge.triggers :
                  bridge.triggers[j] = http_trigger(trigger_table[k])

\* the first register_trigger failed, and the handshake starts with every
\* function installed and no trigger
C12_Witness ==
    /\ main_pc = "connecting"
    /\ bridge.register_triggers = Err(Timeout)
    /\ bridge.functions = function_names
    /\ bridge.triggers = <<>>

\* the trigger table of the documentation: function, path template, method
DocumentedTriggers ==
    <<<<"status", "/_console/status", "GET">>,
     <<"health", "/_console/health", "GET">>,
     <<"functions", "/_console/functions", "GET">>,
     <<"triggers", "/_console/triggers", "GET">>,
     <<"trigger_types", "/_console/trigger-types", "GET">>,
     <<"workers", "/_console/workers", "GET">>,
     <<"alerts_list", "/_console/alerts", "GET">>,
     <<"sampling_rules", "/_console/sampling/rules", "GET">>,
     <<"otel_logs_list", "/_console/otel/logs", "POST">>,
     <<"otel_logs_clear", "/_console/otel/logs/clear", "POST">>,
     <<"otel_traces_list", "/_console/otel/traces", "POST">>,
     <<"otel_traces_clear", "/_console/otel/traces/clear", "POST">>,
     <<"otel_traces_tree", "/_console/otel/traces/tree", "POST">>,
     <<"metrics_detailed", "/_console/metrics/detailed", "POST">>,
     <<"rollups_list", "/_console/rollups", "POST">>,
     <<"state_groups_list", "/_console/states/groups", "GET">>,
     <<"state_group_items", "/_console/states/group", "POST">>,
     <<"state_item_set", "/_console/states/:group/item", "POST">>,
     <<"state_item_delete", "/_console/states/:group/item/:key", "DELETE">>,
     <<"streams_list", "/_console/streams/list", "GET">>,
     <<"flow_config_get", "/_console/flows/config/:flow_id", "GET">>,
     <<"flow_config_save", "/_console/flows/config/:flow_id", "POST">>,
     <<"invoke", "/_console/invoke", "POST">>,
     <<"cron_trigger", "/_console/cron-trigger", "POST">>>>

\* the trigger installed for row of the documented table, if there is one
HasTrigger(row) ==
    \E j \in DOMAIN bridge.triggers :
        /\ bridge.triggers[j].function_path = "engine::console::" \o row[1]
        /\ "/" \o bridge.triggers[j].config.api_path = row[2]
        /\ bridge.triggers[j].config.http_method = row[3]

\* C13: after a startup in which no registration failed, the triggers installed
\* contain an entry for each function of the documented table, with its path
\* template and method, those of invoke and cron_trigger among them; every
\* function installed by register_functions has a trigger, and every trigger
\* names a function installed by register_functions.
C13_TriggerTable ==
    (main_pc = "serve" /\ bridge.register_triggers = Ok(JNull)) =>
        /\ \A r \in DOMAIN DocumentedTriggers : HasTrigger(DocumentedTriggers[r])
        /\ \A i \in DOMAIN bridge.functions :
              \E j \in DOMAIN bridge.triggers :
                  bridge.triggers[j].function_path = bridge.functions[i]
        /\ \A j \in DOMAIN bridge.triggers : installed(bridge.triggers[j].function_path)

\* the console serves, every registration done, invoke and cron_trigger are
\* installed as functions and no trigger names either of them
C13_Witness ==
    /\ main_pc = "serve" /\ bridge.register_triggers = Ok(JNull)
    /\ installed("engine::console::invoke")
    /\ installed("engine::console::cron_trigger")
    /\ Len(bridge.triggers) = Len(trigger_table)
    /\ \A j \in DOMAIN bridge.triggers :
          bridge.triggers[j].function_path \notin
              {"engine::console::invoke", "engine::console::cron_trigger"}

\* the characters [A-Za-z0-9_.-] of a documented flow id
DocumentedIdChars ==
    Range(ASCII_UPPER) \cup Range(ASCII_LOWER) \cup Range(ASCII_DIGIT) \cup {"_", ".", "-"}

\* C14: validate_flow_id accepts exactly the non-empty strings all of whose
\* characters are in [A-Za-z0-9_.-]; it rejects the empty string and every
\* string with a character outside that set (a space, '/', a letter or digit
\* outside ASCII), each time with a Handler error whose message contains the id.
C14_ValidateFlowId ==
    (pc = "done" /\ fn = "validate_flow_id") =>
        LET id == input.v
            documented == id # <<>> /\ \A i \in DOMAIN id : id[i] \in DocumentedIdChars
        IN  IF documented
            THEN result = Ok(id)
            ELSE /\ result.r = "Err"
                 /\ result.e.v.status_code = JNum(500)
                 /\ LET text == result.e.v.body.v.error.v
                    IN  /\ SubSeq(text, 1, Len(MSG.handler)) = MSG.handler
                        /\ Contains(text, id)

\* the id of one letter outside ASCII, U+00E9, was given and accepted
C14_Witness ==
    /\ pc = "done" /\ fn = "validate_flow_id"
    /\ input = JStr(<<"U+00E9">>)
    /\ result = Ok(<<"U+00E9">>)

\* C15: parse_bool_param reads the key from query_params when the envelope has
\* a query_params field and from the envelope itself otherwise, and returns true
\* exactly when the value read is the boolean true or a string equal to "true"
\* ignoring case; an absent key, false, any other string, a number, an array, an
\* object and null give false.
C15_ParseBoolParam ==
    (pc = "done" /\ fn = "parse_bool_param") =>
        LET source == IF Has(input, "query_params") THEN Get(input, "query_params")
                      ELSE input
            value == Get(source, "include_internal")
            true_ignoring_case ==
                /\ value.t = "str" /\ Len(value.v) = 4
                /\ value.v[1] \in {"t", "T"} /\ value.v[2] \in {"r", "R"}
                /\ value.v[3] \in {"u", "U"} /\ value.v[4] \in {"e", "E"}
        IN  result = Ok(JBool(value = JBool(TRUE) \/ true_ignoring_case))

\* query_params carries "TrUE", the envelope itself the number 1: true
C15_Witness ==
    /\ pc = "done" /\ fn = "parse_bool_param"
    /\ Get(Get(input, "query_params"), "include_internal") = JStr(<<"T", "r", "U", "E">>)
    /\ Get(input, "include_internal") = JNum(1)
    /\ result = Ok(JBool(TRUE))

\* C16: trigger_types always answers success with a trigger_types list in
\* ascending lexicographic order and without duplicate; when the trigger list
\* call succeeds the list is the union of the static type names and the string
\* trigger_type values of the triggers listed; when the call fails, or the
\* payload has no "triggers" array, it is the static set.
C16_TriggerTypes ==
    (pc = "done" /\ fn = "engine::console::trigger_types") =>
        LET res == calls[1].res
            body == result.v.v.body
            list == body.v.trigger_types.v
            listed == IF res.r = "Ok" /\ Get(res.v, "triggers").t = "arr"
                      THEN Get(res.v, "triggers").v ELSE <<>>
            discovered == {Get(listed[i], "trigger_type").v :
                              i \in {j \in DOMAIN listed : HasStr(listed[j], "trigger_type")}}
        IN  /\ result.v.v.status_code = JNum(200)
            /\ body.t = "obj" /\ DOMAIN body.v = {"trigger_types"}
            /\ body.v.trigger_types.t = "arr"
            /\ \A i \in DOMAIN list : list[i].t = "str"
            /\ \A i, j \in DOMAIN list :
                  i < j => list[i] # list[j] /\ StrLeq(list[i].v, list[j].v)
            /\ {list[i].v : i \in DOMAIN list} = Range(static_types) \cup discovered

\* the triggers listed have the types "cron", already static, and "Queue": the
\* answer has the nine static names and "Queue", which sorts first
C16_Witness ==
    /\ pc = "done" /\ fn = "engine::console::trigger_types"
    /\ calls[1].res.r = "Ok"
    /\ Get(calls[1].res.v, "triggers").t = "arr"
    /\ Len(Get(calls[1].res.v, "triggers").v) = 2
    /\ Len(result.v.v.body.v.trigger_types.v) = Len(static_types) + 1
    /\ result.v.v.body.v.trigger_types.v[1] = JStr(<<"Q", "u", "e", "u", "e">>)

\* the id starts with "iii." or with "iii:"
InternalId(id) ==
    /\ Len(id) >= 4
    /\ SubSeq(id, 1, 4) \in {<<"i", "i", "i", ".">>, <<"i", "i", "i", ":">>}

\* C17: streams_list maps each remote stream descriptor, in order, to {id, type,
\* description, groups, status: "active", internal}, internal being true exactly
\* when id starts with "iii." or "iii:", type "system" when internal and "user"
\* otherwise, description "<id> stream"; a successful payload without the
\* stream array gives success with an empty list; a call that fails with E
\* gives failure(E).
C17_StreamsList ==
    (pc = "done" /\ fn = "engine::console::streams_list") =>
        LET res == calls[1].res
            body == result.v.v.body
        IN  IF res.r = "Err" THEN result = Failure(res.e)
            ELSE /\ result.v.v.status_code = JNum(200)
                 /\ body.v.streams.t = "arr"
                 /\ IF Get(res.v, "stream").t # "arr" THEN body.v.streams.v = <<>>
                    ELSE LET descriptors == Get(res.v, "stream").v
                             out == body.v.streams.v
                         IN  /\ Len(out) = Len(descriptors)
                             /\ \A i \in DOMAIN descriptors :
                                   HasStr(descriptors[i], "id") =>
                                   LET id == Get(descriptors[i], "id").v
                                   IN  /\ DOMAIN out[i].v =
                                            {"id", "type", "description", "groups",
                                             "status", "internal"}
                                       /\ out[i].v.id = JStr(id)
                                       /\ out[i].v.internal = JBool(InternalId(id))
                                       /\ out[i].v.type =
                                            IF InternalId(id)
                                            THEN JStr(<<"s", "y", "s", "t", "e", "m">>)
                                            ELSE JStr(<<"u", "s", "e", "r">>)
                                       /\ out[i].v.description =
                                            JStr(id \o <<" ", "s", "t", "r", "e", "a", "m">>)
                                       /\ out[i].v.groups.t = "arr"
                                       /\ out[i].v.status =
                                            JStr(<<"a", "c", "t", "i", "v", "e">>)

\* the streams "iii:" and "orders" came back, in this order: the first is
\* internal, of type "system", the second is "orders stream", of type "user"
C17_Witness ==
    /\ pc = "done" /\ fn = "engine::console::streams_list"
    /\ calls[1].res.r = "Ok"
    /\ Get(calls[1].res.v, "stream").t = "arr"
    /\ Len(result.v.v.body.v.streams.v) = 2
    /\ result.v.v.body.v.streams.v[1].v.id = JStr(<<"i", "i", "i", ":">>)
    /\ result.v.v.body.v.streams.v[1].v.internal = JBool(TRUE)
    /\ result.v.v.body.v.streams.v[2].v.description =
          JStr(<<"o", "r", "d", "e", "r", "s", " ", "s", "t", "r", "e", "a", "m">>)
    /\ result.v.v.body.v.streams.v[2].v.type = JStr(<<"u", "s", "e", "r">>)

\* the endpoints that answer success whatever their remote calls give
DegradingHandlers ==
    {"engine::console::status", "engine::console::trigger_types",
     "engine::console::flow_config_get"}

\* C18: no retries.  Within one invocation a remote call that failed, with
\* Timeout or any other error, is never issued again; status issues exactly
\* three calls, one per sub-call; cron_trigger at most two, at most one trigger
\* list lookup followed by at most one invocation of a function; every other
\* handler at most one.  A Timeout of a call of an endpoint that does not
\* degrade gives a 504 response.
C18_NoRetries ==
    pc # "idle" =>
        /\ \A i, j \in DOMAIN calls :
              (i < j /\ calls[i].res.r = "Err") =>
                  /\ calls[j].name # calls[i].name
                  /\ fn = "engine::console::status"
        /\ CASE fn = "engine::console::status" ->
                  /\ Len(calls) = 3
                  /\ calls[1].name = RPC.workers_list
                  /\ calls[2].name = RPC.functions_list
                  /\ calls[3].name = RPC.metrics_list
             [] fn = "engine::console::cron_trigger" ->
                  /\ Len(calls) <= 2
                  /\ Len(calls) = 2 =>
                        /\ ~SuppliesFunctionId(input)
                        /\ calls[1].name = RPC.triggers_list
                        /\ calls[1].res.r = "Ok"
                  /\ (Len(calls) = 1 /\ SuppliesFunctionId(input)) =>
                        calls[1].payload.t = "obj" /\ Has(calls[1].payload, "job_id")
             [] OTHER -> Len(calls) <= 1
        /\ (pc = "done" /\ fn \notin DegradingHandlers
               /\ \E i \in DOMAIN calls : calls[i].res = Err(Timeout))
              => result.v.v.status_code = JNum(504)

\* the one call of health timed out: the invocation is over with this one call
\* and the answer is 504
C18_Witness ==
    /\ pc = "done" /\ fn = "engine::console::health"
    /\ Len(calls) = 1 /\ calls[1].res = Err(Timeout)
    /\ result.v.v.status_code = JNum(504)

\* the function_id a cron_trigger request supplies: that of the body, else that
\* of the envelope
SuppliedFunctionId(env) ==
    IF HasStr(Get(env, "body"), "function_id")
    THEN Get(Get(env, "body"), "function_id").v
    ELSE Get(env, "function_id").v

\* a call is the trigger list lookup
IsLookup(call) ==
    /\ call.name = RPC.triggers_list
    /\ call.payload = JObj([include_internal |-> JBool(TRUE)])

\* C19: when the cron_trigger request supplies a function_id, no trigger list
\* call is issued and exactly the supplied function is invoked, once; the
\* trigger list lookup happens only when no function_id is supplied.
C19_SuppliedFunctionId ==
    (pc # "idle" /\ fn = "engine::console::cron_trigger"
        /\ MissingFields(fn, input) = {}) =>
        IF SuppliesFunctionId(input)
        THEN /\ Len(calls) = 1
             /\ calls[1].name = SuppliedFunctionId(input)
             /\ ~IsLookup(calls[1])
             /\ Has(calls[1].payload, "job_id")
        ELSE /\ IsLookup(calls[1])
             /\ \A i \in DOMAIN calls : i > 1 => ~IsLookup(calls[i])

\* the body supplies "jobs::run": it was invoked, alone, and has answered
C19_Witness ==
    /\ pc = "done" /\ fn = "engine::console::cron_trigger"
    /\ Get(Get(input, "body"), "function_id") = JStr(ID_FN)
    /\ Len(calls) = 1 /\ calls[1].name = ID_FN
    /\ calls[1].res.r = "Ok"
    /\ result.v.v.status_code = JNum(200)

\* the keys handler f reads from the body of the request
BodyKeys(f) ==
    CASE f = "engine::console::otel_traces_tree" -> {"trace_id"}
      [] f = "engine::console::state_group_items" -> {"scope"}
      [] f = "engine::console::state_item_set" -> {"key", "value"}
      [] f = "engine::console::invoke" -> {"function_id", "input"}
      [] f = "engine::console::cron_trigger" -> {"trigger_id", "function_id"}
      [] OTHER -> {}

\* place provides key k: a string for the ids, any JSON value for value and input
Provides(place, k) == IF k \in {"value", "input"} THEN Has(place, k) ELSE HasStr(place, k)

\* the value of key k by the documented precedence: body.k, else the top-level k
Chosen(env, k) ==
    IF Provides(Get(env, "body"), k) THEN Get(Get(env, "body"), k)
    ELSE IF Provides(env, k) THEN Get(env, k)
    ELSE Absent

\* place provides key k with a value the handler accepts: a trigger_id not empty
Usable(place, k) ==
    Provides(place, k) /\ (k = "trigger_id" => Get(place, k) # JStr(EMPTY_STR))

\* the invocation has issued the remote call that carries key k
Issued(k) ==
    /\ calls # <<>>
    /\ fn = "engine::console::cron_trigger" =>
          IF k = "function_id" THEN SuppliesFunctionId(input)
          ELSE Has(calls[Len(calls)].payload, "job_id")

\* the value of key k that the remote call of the invocation carries
UsedValue(k) ==
    CASE fn = "engine::console::invoke" /\ k = "function_id" -> JStr(calls[1].name)
      [] fn = "engine::console::invoke" /\ k = "input" -> calls[1].payload
      [] fn = "engine::console::cron_trigger" /\ k = "function_id" -> JStr(calls[1].name)
      [] fn = "engine::console::cron_trigger" /\ k = "trigger_id" ->
           Get(calls[Len(calls)].payload, "job_id")
      [] OTHER -> Get(calls[1].payload, k)

\* the invocation was answered, without a remote call, that key k is missing
AnsweredMissing(k) ==
    /\ pc = "done" /\ calls = <<>>
    /\ CASE k = "trace_id" -> IsHandlerError(MSG.missing_trace_id)
         [] k = "scope" -> IsHandlerError(MSG.missing_scope)
         [] k = "key" -> IsHandlerError(MSG.missing_key_body)
         [] k = "value" -> IsHandlerError(MSG.missing_value)
         [] k = "trigger_id" -> IsHandlerError(MSG.missing_trigger_id)
         [] k = "function_id" ->
              fn = "engine::console::invoke" /\ IsHandlerError(MSG.missing_function_id)
         [] OTHER -> FALSE

\* C20, as stated: for every body-scoped key K (trace_id, scope, key, value,
\* function_id, input, trigger_id) the value the handler uses is body.K when the
\* body provides K, even if a different top-level K is there, the top-level K
\* otherwise, and the Handler error for a missing K is answered only when
\* neither place provides K (an empty trigger_id counted as not provided).
C20_AsStated ==
    pc # "idle" =>
        \A k \in BodyKeys(fn) :
            /\ (Issued(k) /\ Chosen(input, k) # Absent) => UsedValue(k) = Chosen(input, k)
            /\ AnsweredMissing(k) =>
                  ~Usable(Get(input, "body"), k) /\ ~Usable(input, k)

\* what the handlers do keep: the value used is body.K when the body provides
\* K, the top-level K otherwise, and the error for a missing K is answered only
\* when neither place provides K, or when K is trigger_id and the value this
\* precedence chooses is the empty string (the top-level trigger_id is not tried).
C20_FieldPrecedence ==
    pc # "idle" =>
        \A k \in BodyKeys(fn) :
            /\ (Issued(k) /\ Chosen(input, k) # Absent) => UsedValue(k) = Chosen(input, k)
            /\ AnsweredMissing(k) =>
                  \/ Chosen(input, k) = Absent
                  \/ k = "trigger_id" /\ Chosen(input, k) = JStr(EMPTY_STR)

\* a trace was asked for by the trace_id of the body while the envelope carried
\* another trace_id at top level
C20_Witness ==
    /\ pc # "idle" /\ fn = "engine::console::otel_traces_tree"
    /\ HasStr(Get(input, "body"), "trace_id") /\ HasStr(input, "trace_id")
    /\ Get(Get(input, "body"), "trace_id") # Get(input, "trace_id")
    /\ calls # <<>>
    /\ Get(calls[1].payload, "trace_id") = Get(Get(input, "body"), "trace_id")

\* call i of the invocation is the invocation of a function named by a request
IsFunctionInvocation(i) ==
    \/ fn = "engine::console::invoke"
    \/ fn = "engine::console::cron_trigger" /\ i = InvocationIndex(input)

\* the documented classes of the engine's operations
TreeAndListAll == {RPC.traces_tree, RPC.stream_list_all}
SimpleOperations ==
    {RPC.health_check, RPC.workers_list, RPC.functions_list, RPC.triggers_list,
     RPC.alerts_list, RPC.sampling_rules, RPC.logs_list, RPC.logs_clear,
     RPC.traces_list, RPC.traces_clear, RPC.metrics_list, RPC.rollups_list,
     RPC.state_get, RPC.state_set, RPC.state_delete, RPC.state_list,
     RPC.state_list_groups}

\* the deadline the documentation gives call i of the invocation, 0 for none
DocumentedDeadline(i) ==
    IF IsFunctionInvocation(i) THEN 30
    ELSE IF calls[i].name \in TreeAndListAll THEN 10
    ELSE IF calls[i].name \in SimpleOperations THEN 5
    ELSE 0

\* C21: every remote call a handler issues carries a deadline, and the deadline
\* is that of the class of the call: 5 seconds for the simple operations, 10
\* seconds for traces tree and stream list_all, 30 seconds for the function
\* invocation of invoke and of cron_trigger.
C21_Deadlines ==
    \A i \in DOMAIN calls : calls[i].timeout = DocumentedDeadline(i)

\* cron_trigger has looked its trigger up with a deadline of 5 seconds and
\* invoked the function with one of 30
C21_Witness ==
    /\ fn = "engine::console::cron_trigger" /\ Len(calls) = 2
    /\ calls[1].name = RPC.triggers_list /\ calls[1].timeout = 5
    /\ calls[2].timeout = 30

\* C22: whenever cron_trigger invokes a function, the name of that function is
\* a string that is not empty, both when it comes from the trigger found in the
\* list and when the request supplies it.
C22_FunctionNamed ==
    (fn = "engine::console::cron_trigger" /\ Len(calls) >= InvocationIndex(input))
        => calls[InvocationIndex(input)].name # EMPTY_STR

\* cron_trigger has invoked the function of the trigger it found in the list
C22_Witness ==
    /\ fn = "engine::console::cron_trigger" /\ ~SuppliesFunctionId(input)
    /\ Len(calls) = 2 /\ calls[2].name = ID_FN

\* C23: against a state store that behaves as a key-value map, after any
\* sequence of flow_config_save, state_item_set and state_item_delete, on any
\* group, every success response of flow_config_get(id) has a body of the form
\* {id, config} whose id is the id requested.
C23_GetAnswersRequestedId ==
    (pc = "done" /\ fn = "engine::console::flow_config_get"
        /\ result.v.v.status_code = JNum(200)) =>
        LET body == result.v.v.body
        IN  /\ body.t = "obj"
            /\ DOMAIN body.v = {"id", "config"}
            /\ body.v.id = RequestedGetId(input)

\* state_item_set has written null under the flow-config namespace at key "f1"
\* and a later flow_config_get("f1") has answered {id: "f1", config: {}}
C23_Witness ==
    /\ pc = "done" /\ fn = "engine::console::flow_config_get"
    /\ RequestedGetId(input) = JStr(ID_F1)
    /\ ID_F1 \in DOMAIN flowlog /\ flowlog[ID_F1].by = "set"
    /\ calls[1].res = Ok(JNull)
    /\ result = Success(JObj([id |-> JStr(ID_F1), config |-> EmptyObj]))

\* the endpoints the documentation calls read endpoints
ReadEndpoints ==
    {"engine::console::health", "engine::console::workers", "engine::console::functions",
     "engine::console::triggers", "engine::console::status",
     "engine::console::trigger_types", "engine::console::alerts_list",
     "engine::console::sampling_rules", "engine::console::state_groups_list",
     "engine::console::state_group_items", "engine::console::streams_list",
     "engine::console::flow_config_get"}

\* the call is to the store's set function, to its delete function
IsStateSet(call) == call.name = RPC.state_set \/ call.name = ID_STATE_SET
IsStateDelete(call) == call.name = RPC.state_delete \/ call.name = ID_STATE_DELETE

\* the state set of flow_config_save: under the flow-config namespace, with a
\* key that validate_flow_id accepts
IsFlowConfigWrite(call) ==
    /\ call.name = RPC.state_set
    /\ Get(call.payload, "scope") = JStr(FLOW_CONFIG_GROUP)
    /\ HasStr(call.payload, "key")
    /\ validate_flow_id(Get(call.payload, "key").v).r = "Ok"

\* C24, as stated: the read endpoints issue no state set and no state delete,
\* the only handlers that issue a state set are state_item_set and
\* flow_config_save, the only one that issues a state delete is
\* state_item_delete, and flow_config_save writes only under the flow-config
\* namespace with a key that passed validate_flow_id.
C24_AsStated ==
    \A i \in DOMAIN calls :
        /\ fn \in ReadEndpoints => ~IsStateSet(calls[i]) /\ ~IsStateDelete(calls[i])
        /\ IsStateSet(calls[i]) =>
              fn \in {"engine::console::state_item_set", "engine::console::flow_config_save"}
        /\ IsStateDelete(calls[i]) => fn = "engine::console::state_item_delete"
        /\ fn = "engine::console::flow_config_save" => IsFlowConfigWrite(calls[i])

\* C24: the read endpoints issue no state set and no state delete; apart from
\* the function invocation of invoke and of cron_trigger, which goes to the
\* function the request or the trigger names, the only handlers that issue a
\* state set are state_item_set and flow_config_save and the only one that
\* issues a state delete is state_item_delete; and flow_config_save writes
\* only under the flow-config namespace with a key that passed validate_flow_id.
C24_StateWrites ==
    \A i \in DOMAIN calls :
        /\ fn \in ReadEndpoints => ~IsStateSet(calls[i]) /\ ~IsStateDelete(calls[i])
        /\ IsStateSet(calls[i]) =>
              \/ fn \in {"engine::console::state_item_set",
                         "engine::console::flow_config_save"}
              \/ IsFunctionInvocation(i)
        /\ IsStateDelete(calls[i]) =>
              fn = "engine::console::state_item_delete" \/ IsFunctionInvocation(i)
        /\ fn = "engine::console::flow_config_save" => IsFlowConfigWrite(calls[i])

\* flow_config_save has written {id, config} under the flow-config namespace
\* at the validated id "f1"
C24_Witness ==
    /\ pc = "done" /\ fn = "engine::console::flow_config_save"
    /\ Len(calls) = 1 /\ calls[1].res.r = "Ok"
    /\ IsFlowConfigWrite(calls[1])
    /\ Get(calls[1].payload, "key") = JStr(ID_F1)
====
